---- MODULE Spec2Model ----
(***************************************************************************)
(* Model of the relay of vmfltlwms/aws_backend.  Downstream side:         *)
(* core/websocket.py (ConnectionManager) and services/realtime_handler.py *)
(* (RealtimeHandler), the lists of listeners and the broadcasts over      *)
(* them.  Upstream side:                                                  *)
(* core/socket_client.py (SocketClient): the single upstream WebSocket,    *)
(* the tag-keyed table of pending replies (response_futures), the receive  *)
(* loop with its reconnect logic, and the subscription mirror              *)
(* (registered_items, registered_groups).                                  *)
(*                                                                         *)
(* asyncio is cooperative: a task runs without interruption from one await *)
(* that suspends to the next.  Every action below is one such stretch of   *)
(* code.  The awaits that suspend are websockets.connect(), recv(),        *)
(* asyncio.sleep() and asyncio.wait_for().  An await of a send             *)
(* (websocket.send(), send_text(), send_json()) may suspend or not: most   *)
(* specifications take it to complete within the stretch that calls it;    *)
(* SpecInterleaved and SpecBroadcast split the callers at their sends, for *)
(* the properties that depend on what runs while a send is pending.        *)
(***************************************************************************)
EXTENDS Integers, Sequences, FiniteSets, TLC

\* ---------------------------------------------------------------- bounds
MaxTasks == 3          \* calls of the client's methods plus sockets opened, in one run
MaxInbox == 1          \* frames in flight from the venue on one socket
MaxSocks == 2          \* sockets opened by connect() in one run
MaxEvents == 3         \* events handled or stored in one run
MaxClock == 2          \* seconds that pass in one run

\* ------------------------------------------------------- program constants
max_retries == 5       \* try_reconnect(max_retries=5)
retry_delay == 5       \* try_reconnect(retry_delay=5), in seconds

Calls == 1..MaxTasks   \* calls of send_and_wait_for_response
Ops == 1..MaxTasks     \* calls of initialize, register_real_data, send_message
Socks == 1..MaxSocks
Loops == Socks         \* connect() number s starts receive task number s

ReqTags == {"CNSRLST", "CNSRREQ"}
Groups == {"1"}
ItemLists == {<<"005930">>}
TypeLists == {<<"0D">>}
Seqs == {"7"}
PingBodies == {1}
None == 0              \* self.websocket = None

VARIABLES
    connected,          \* self.connected
    websocket,          \* self.websocket: a socket id, or None
    keep_running,       \* self.keep_running
    reconnect_attempts, \* self.reconnect_attempts
    realtime_handler,   \* self.realtime_handler is set
    response_futures,   \* self.response_futures: tag -> the call whose Future it holds
    registered_items,   \* self.registered_items: group -> item -> list of kinds
    registered_groups,  \* self.registered_groups: list of "cond_<seq>" (kept as seq)
    sock,               \* per socket: "unopened" | "open" | "closed"
    inbox,              \* per socket: frames sent by the venue and not yet read
    sentOn,             \* messages written by websocket.send to the socket self.websocket names
    call,               \* per call of send_and_wait_for_response
    op,                 \* per caller of send_message
    loop,               \* per receive_messages task
    dispatched,         \* what the last iteration of a receive loop handed to
                        \* realtime_handler.process_real_time_data: {} or one frame
    active_connections, \* ConnectionManager.active_connections: list of connection_info
    client_groups,      \* ConnectionManager.client_groups: group -> list of websockets
    websocket_clients,  \* RealtimeHandler.websocket_clients: list of websockets
    listener,           \* per downstream websocket: how it was connected, whether
                        \* its channel still takes a send
    delivered,          \* the last broadcast: its kind and group, the websockets
                        \* that got the message and those whose send raised
    redis,              \* the data of the Redis server: hashes, strings, sorted
                        \* sets and lists
    redis_client,       \* db.redis_client.redis_client: the global connection
    handler_redis,      \* RealtimeHandler.redis_client
    processed,          \* the calls made so far that handle an event or store
                        \* one, each with its arguments and what became of it
    clock,              \* int(time.time())
    kiwoom_connected,   \* KiwoomClient.connected
    response,           \* the last REST request and the HTTP status it got
    session,            \* per downstream websocket: the texts its endpoint has
                        \* handled, each with the reply to it
    state_manager,      \* RealtimeStateManager: subscriptions (group -> items and
                        \* data_types, two sets) and condition_subscriptions
    market_websocket,   \* one run of the endpoint /ws/realdata: its local list
                        \* client_groups and the replies it has sent
    broadcast_task      \* per task running broadcast_to_clients: where its for
                        \* loop is, its list disconnected, the clients listed when
                        \* it started and those its send_text has reached

downstream == <<active_connections, client_groups, websocket_clients, listener, delivered>>

front == <<kiwoom_connected, response, session, state_manager, market_websocket,
          broadcast_task>>

services == <<redis, redis_client, handler_redis, processed, clock, front>>

vars == <<connected, websocket, keep_running, reconnect_attempts, realtime_handler,
          response_futures, registered_items, registered_groups, sock, inbox,
          sentOn,  call, op, loop, dispatched, downstream, services>>

\* ------------------------------------------------------------ wire formats
\* A frame read from the venue: its trnm tag, its return_code, and req: the
\* call whose request it answers (0 when unsolicited; for PING the body).
Frame(t, rc, r) == [trnm |-> t, return_code |-> rc, req |-> r]
NoFrame == Frame("", 0, 0)

\* A message written upstream.
\* (ref: the call that sends a request, or the body of an echoed heartbeat; seq:
\* the condition of a realtime-condition request.)
Msg(t, r, q, g, i, k, f) ==
    [trnm |-> t, ref |-> r, seq |-> q, grp_no |-> g, item |-> i, type |-> k, refresh |-> f]
LoginMsg == Msg("LOGIN", 0, "", "", <<>>, <<>>, "")
ReqMsg(t, c, q) == Msg(t, c, q, "", <<>>, <<>>, "")
RegMsg(g, i, k, f) == Msg("REG", 0, "", g, i, k, IF f THEN "1" ELSE "0")
RawMsg == Msg("RAW", 0, "", "", <<>>, <<>>, "")
NoMsg == Msg("", 0, "", "", <<>>, <<>>, "")

\* (mutant of EchoMsg: a fixed PONG instead of the received frame)
EchoPong(f) == Msg("PONG", 0, "", "", <<>>, <<>>, "")

\* The heartbeat echo: json.dumps of the dict that json.loads made of the
\* frame, so the same tag and the same body.
EchoMsg(f) == Msg(f.trnm, f.req, "", "", <<>>, <<>>, "")

\* ------------------------------------------------------------- dict helpers
Has(d, k) == k \in DOMAIN d
Put(d, k, v) == [x \in DOMAIN d \cup {k} |-> IF x = k THEN v ELSE d[x]]
Del(d, k) == [x \in DOMAIN d \ {k} |-> d[x]]
EmptyDict == <<>>
InList(l, x) == \E n \in 1..Len(l) : l[n] = x

\* --------------------------------------------------------- transport state
\* The fields of SocketClient that connect(), send_message() and the receive
\* loop update together, as one record so that the calls can be composed.
Cur == [conn |-> connected, ws |-> websocket, kr |-> keep_running,
        ra |-> reconnect_attempts, sock |-> sock, sent |-> sentOn, loop |-> loop]

Commit(T) ==
    /\ connected' = T.conn
    /\ websocket' = T.ws
    /\ keep_running' = T.kr
    /\ reconnect_attempts' = T.ra
    /\ sock' = T.sock
    /\ sentOn' = T.sent
    /\ loop' = T.loop

Opened(T) == {s \in Socks : T.sock[s] # "unopened"}
NewSock(T) == Cardinality(Opened(T)) + 1

\* connect(), from the return of websockets.connect() on: the new socket is
\* stored, connected and reconnect_attempts are set, LOGIN is sent on it and a
\* new receive_messages task is created.
ConnectOK(T) ==
    LET s == NewSock(T) IN
    [T EXCEPT !.conn = TRUE,
              !.ws = s,
              !.ra = 0,
              !.sock[s] = "open",
              !.sent = {LoginMsg},
              !.loop[s] = [pc |-> "top", sock |-> None, frame |-> NoFrame, wait |-> 0]]

\* connect() when websockets.connect() raises: connected is cleared and the
\* exception is raised again to the caller of connect().
ConnectFail(T) == [T EXCEPT !.conn = FALSE]

\* The part of send_message() that runs once self.connected holds:
\* json.dumps (ser = FALSE: it raises), then websocket.send, which raises
\* ConnectionClosed on a socket the peer has closed.  Both failures clear
\* connected.
SendOK(T, ser) == ser /\ T.ws # None /\ T.sock[T.ws] = "open"

SendConnected(T, m, ser) ==
    IF SendOK(T, ser)
    THEN [T EXCEPT !.sent = @ \cup {m}]
    ELSE [T EXCEPT !.conn = FALSE]

\* (mutant of Disconnect: the socket is left open and still named)
DisconnectFlagOnly(T) == [T EXCEPT !.kr = FALSE, !.conn = FALSE]

\* disconnect()
Disconnect(T) ==
    [T EXCEPT !.kr = FALSE,
              !.sock = IF T.ws # None THEN [T.sock EXCEPT ![T.ws] = "closed"] ELSE T.sock,
              !.conn = FALSE,
              !.ws = None]

\* (mutant of Retries: the test lets one attempt too many through)
RetriesOneMore(T) == T.ra <= max_retries

\* try_reconnect() up to its asyncio.sleep: gives up at max_retries, otherwise
\* counts the attempt.  TRUE when it goes on to sleep and connect.
Retries(T) == T.ra < max_retries

\* (mutant of WaitTime: every attempt waits retry_delay)
WaitFlat(attempts) == retry_delay

\* wait_time = retry_delay * self.reconnect_attempts
WaitTime(attempts) == retry_delay * attempts

\* try_reconnect() past its test: the attempt is counted and the task sleeps
\* wait_time seconds before it calls connect().
TryReconnect(T, l) ==
    [T EXCEPT !.ra = @ + 1,
              !.loop[l].pc = "reconnect",
              !.loop[l].wait = WaitTime(T.ra + 1)]

\* The head of the while loop of receive_messages, run by task l right after
\* the previous iteration (there is no await in between): leave the loop when
\* keep_running is cleared; call try_reconnect when not connected; otherwise
\* call recv() on the socket that self.websocket names now.  When
\* try_reconnect has given up it returns without ever suspending, so the loop
\* comes straight back here: the task spins ("spin") and never yields.
LoopTop(T, l) ==
    IF ~T.kr THEN [T EXCEPT !.loop[l].pc = "exited"]
    ELSE IF ~T.conn \/ T.ws = None
         THEN IF Retries(T)
              THEN TryReconnect(T, l)
              ELSE [T EXCEPT !.loop[l].pc = "spin"]
         ELSE [T EXCEPT !.loop[l].pc = "recv", !.loop[l].sock = T.ws]

\* A task that spins in the while loop never gives the event loop back: no
\* other task runs again.
Starved == \E l \in Loops : loop[l].pc = "spin"

Iter(T, l) == LoopTop([T EXCEPT !.loop[l].frame = NoFrame, !.loop[l].wait = 0], l)

\* ------------------------------------------------------------- the registry
\* register_real_data: the inner loop over types, then the loop over items.
RECURSIVE AddTypes(_, _)
AddTypes(lst, types) ==
    IF types = <<>> THEN lst
    ELSE AddTypes(IF InList(lst, Head(types)) THEN lst ELSE Append(lst, Head(types)),
                  Tail(types))

RECURSIVE AddItems(_, _, _)
AddItems(m, items, types) ==
    IF items = <<>> THEN m
    ELSE LET i == Head(items)
             m1 == IF Has(m, i) THEN m ELSE Put(m, i, <<>>)
         IN AddItems(Put(m1, i, AddTypes(m1[i], types)), Tail(items), types)

\* (mutant of RegisterItems: the group's map is always replaced)
RegisterReplace(reg, g, items, types, refresh) ==
    Put(reg, g, AddItems(EmptyDict, items, types))

\* register_real_data: the mirror update.
RegisterItems(reg, g, items, types, refresh) ==
    LET r1 == IF refresh THEN Put(reg, g, EmptyDict)
              ELSE IF Has(reg, g) THEN reg ELSE Put(reg, g, EmptyDict)
    IN Put(r1, g, AddItems(r1[g], items, types))

\* -------------------------------------------------------- the receive loop
\* (mutant of Classify: the push test looks for RECV, the tag KiwoomClient uses)
ClassifyRecv(f, futs, handler) ==
    IF f.trnm = "PING" THEN "ping"
    ELSE IF Has(futs, f.trnm) THEN "future"
    ELSE IF f.trnm = "LOGIN" THEN "login"
    ELSE IF handler THEN (IF f.trnm = "RECV" THEN "push" ELSE "log")
    ELSE "nohandler"

\* (mutant of Classify: LOGIN is tested before the table of pending replies and
\* every frame that is left goes to the dispatcher)
ClassifyPushRest(f, futs, handler) ==
    IF f.trnm = "PING" THEN "ping"
    ELSE IF f.trnm = "LOGIN" THEN "login"
    ELSE IF Has(futs, f.trnm) THEN "future"
    ELSE "push"

\* The order of the tests that receive_messages makes on the trnm of a frame.
Classify(f, futs, handler) ==
    IF f.trnm = "PING" THEN "ping"
    ELSE IF Has(futs, f.trnm) THEN "future"
    ELSE IF f.trnm = "LOGIN" THEN "login"
    ELSE IF handler THEN (IF f.trnm = "REAL" THEN "push" ELSE "log")
    ELSE "nohandler"

\* (mutant of ForgetFuture: the entry is deleted in the timeout branch only,
\* not after a reply)
ForgetOnTimeoutOnly(futs, tag) ==
    IF Has(futs, tag) /\ call[futs[tag]].fut # "done" THEN Del(futs, tag) ELSE futs

\* (mutant of ForgetFuture: the entry is left in the table)
ForgetNothing(futs, tag) == futs

\* The finally block of send_and_wait_for_response (and its send-failure
\* branch): whatever entry the tag has now is deleted.
ForgetFuture(futs, tag) == IF Has(futs, tag) THEN Del(futs, tag) ELSE futs

\* self.response_futures[trnm] = future
RegisterFuture(futs, tag, c) == Put(futs, tag, c)

\* request_realtime_condition after a reply without an "error" key.
AddConditionGroup(groups, seq) == IF InList(groups, seq) THEN groups ELSE Append(groups, seq)

\* ------------------------------------------------- the downstream listeners
Listeners == {"w1", "w2", "w3"}        \* WebSocket objects of downstream clients
LGroups == {"1", "2"}
GroupLists == {<<"1">>, <<"2">>, <<"1", "2">>}   \* the groups argument of connect()

\* A websocket that no endpoint has accepted yet.
NewListener == [st |-> "new", groups |-> <<>>, channel |-> "open"]
NoBroadcast == [kind |-> "none", group |-> "", got |-> {}, failed |-> {}, tick |-> 0]

\* ConnectionManager() and RealtimeHandler() as constructed.
NoListeners ==
    /\ active_connections = <<>>
    /\ client_groups = EmptyDict
    /\ websocket_clients = <<>>
    /\ listener = [w \in Listeners |-> NewListener]
    /\ delivered = NoBroadcast

\* ------------------------------------------------------------------ Redis
\* The commands of the Redis server that the code uses, on a record of its
\* data: hashes (name -> field -> value), strings (key -> value), sorted sets
\* (key -> set of <<member, score>>, one score per member) and lists.
\* A key made by an f-string, as f"trade:{code}:{ts}", is the tuple of its
\* parts.
NoRedisData == [hashes |-> EmptyDict, strings |-> EmptyDict, zsets |-> EmptyDict,
                lists |-> EmptyDict]

Get(d, k, default) == IF Has(d, k) THEN d[k] ELSE default

\* client.hset(hash_name, key, value)
HSet(R, name, key, value) ==
    [R EXCEPT !.hashes = Put(@, name, Put(Get(@, name, EmptyDict), key, value))]

\* client.set(key, value)
Set(R, key, value) == [R EXCEPT !.strings = Put(@, key, value)]

\* client.zadd(key, {member: score}): the member's score is replaced.
ZAdd(R, key, member, score) ==
    [R EXCEPT !.zsets = Put(@, key, {e \in Get(@, key, {}) : e[1] # member}
                                    \cup {<<member, score>>})]

\* client.zremrangebyscore(key, lo, hi); a sorted set left empty is no key.
ZRemRangeByScore(R, key, lo, hi) ==
    IF ~Has(R.zsets, key) THEN R
    ELSE LET z == {e \in R.zsets[key] : ~(lo <= e[2] /\ e[2] <= hi)}
         IN [R EXCEPT !.zsets = IF z = {} THEN Del(@, key) ELSE Put(@, key, z)]

\* client.lpush(key, value): the value becomes the head of the list.
LPush(R, key, value) ==
    [R EXCEPT !.lists = Put(@, key, <<value>> \o Get(@, key, <<>>))]

\* The inclusive range start..stop of a list of length n, where a negative
\* index counts from the tail (-1 is the last element).
Index(i, n) == IF i < 0 THEN (IF n + i < 0 THEN 0 ELSE n + i) ELSE i
Range0(q, start, stop) ==
    LET n == Len(q)
        a == Index(start, n)
        b == IF Index(stop, n) >= n THEN n - 1 ELSE Index(stop, n)
    IN IF (stop < 0 /\ n + stop < 0) \/ a > b THEN <<>> ELSE SubSeq(q, a + 1, b + 1)

\* client.ltrim(key, start, stop); a list left empty is no key.
LTrim(R, key, start, stop) ==
    IF ~Has(R.lists, key) THEN R
    ELSE LET q == Range0(R.lists[key], start, stop)
         IN [R EXCEPT !.lists = IF q = <<>> THEN Del(@, key) ELSE Put(@, key, q)]

\* client.lrange(key, start, stop)
LRange(R, key, start, stop) == Range0(Get(R.lists, key, <<>>), start, stop)

\* A REST request: its route, KiwoomClient.connected when it arrived, what
\* the upstream call did, and the HTTP status of the answer.
Response(route, conn, upstream, status) ==
    [route |-> route, connected |-> conn, upstream |-> upstream, status |-> status]
NoResponse == Response("", FALSE, "", 0)

\* A text received on a downstream websocket: whether json.loads takes it
\* ("invalid": it raises JSONDecodeError) and whether it yields an object
\* ("object") or another value ("other"), and the "action" of an object
\* ("none": the object has no such key).
Text(json, action) == [json |-> json, action |-> action]
\* websocket.send_json({"status": ..., "action": ..., "message": ...}); the
\* message by its kind.
Reply(status, action, message) == [status |-> status, action |-> action, message |-> message]
\* The commands that the endpoint of a websocket has handled: none.
NoSession == <<>>
\* RealtimeStateManager.__init__
NoSubscriptions == [subscriptions |-> EmptyDict, condition_subscriptions |-> {}]
\* The tasks that run RealtimeHandler.broadcast_to_clients, and one that has
\* not been created yet.
Tasks == {1, 2}
NoTask == [pc |-> "none", i |-> 0, disconnected |-> <<>>, start |-> {}, got |-> <<>>]
\* market_websocket before its loop: client_groups = []
Accepted == [client_groups |-> <<>>, replies |-> <<>>]

\* The state of the services before the application has started: no global
\* Redis connection (redis_client = None), a RealtimeHandler as constructed.
NoServices ==
    /\ redis = NoRedisData
    /\ redis_client = "none"
    /\ handler_redis = "none"
    /\ processed = <<>>
    /\ clock = 0
    /\ kiwoom_connected = FALSE
    /\ response = NoResponse
    /\ session = [w \in Listeners |-> NoSession]
    /\ state_manager = NoSubscriptions
    /\ market_websocket = Accepted
    /\ broadcast_task = [b \in Tasks |-> NoTask]

IdleCall == [pc |-> "idle", api |-> "", tag |-> "", seq |-> "", fut |-> "none",
             res |-> NoFrame, ret |-> "none", sends |-> 0]
IdleOp == [pc |-> "idle", api |-> "", msg |-> NoMsg, ser |-> TRUE, ret |-> "none"]
NoLoop == [pc |-> "none", sock |-> None, frame |-> NoFrame, wait |-> 0]

Init ==
    /\ connected = FALSE
    /\ websocket = None
    /\ keep_running = TRUE
    /\ reconnect_attempts = 0
    /\ realtime_handler = FALSE
    /\ response_futures = EmptyDict
    /\ registered_items = EmptyDict
    /\ registered_groups = <<>>
    /\ sock = [s \in Socks |-> "unopened"]
    /\ inbox = [s \in Socks |-> <<>>]
    /\ sentOn = {}
    /\ call = [c \in Calls |-> IdleCall]
    /\ op = [o \in Ops |-> IdleOp]
    /\ loop = [l \in Loops |-> NoLoop]
    /\ dispatched = {}
    /\ NoListeners
    /\ NoServices

\* The run's budget of tasks: what has been started so far.
Started ==
    Cardinality({c \in Calls : call[c].pc # "idle"})
    + Cardinality({o \in Ops : op[o].pc # "idle"})
    + Cardinality(Opened(Cur))
CanStart == Started < MaxTasks

\* The two outcomes of `await websockets.connect(...)`.
Outcomes == {ok \in BOOLEAN : ok => CanStart /\ NewSock(Cur) \in Socks}

\* Tasks are numbered in the order in which they start.
FirstIdleOp(o) == CanStart /\ op[o].pc = "idle" /\ \A p \in Ops : p < o => op[p].pc # "idle"
FirstIdleCall(c) == CanStart /\ call[c].pc = "idle" /\ \A d \in Calls : d < c => call[d].pc # "idle"

\* ----------------------------------------------- send_and_wait_for_response
\* From the registration of the Future to the await of wait_for, with the
\* transport in state T (connected): the Future is stored under the tag, the
\* request is sent; a failed send deletes the entry and returns an error.
Registered(T, c, api, tag, seq) ==
    LET ok == SendOK(T, TRUE)
        futs == RegisterFuture(response_futures, tag, c)
    IN /\ Commit(SendConnected(T, ReqMsg(tag, c, seq), TRUE))
       /\ response_futures' = IF ok THEN futs ELSE ForgetFuture(futs, tag)
       /\ call' = [call EXCEPT ![c] =
                     [pc |-> IF ok THEN "wait" ELSE "done",
                      api |-> api, tag |-> tag, seq |-> seq,
                      fut |-> IF ok THEN "pending" ELSE "none",
                      res |-> NoFrame,
                      ret |-> IF ok THEN "none" ELSE "sendfail",
                      sends |-> IF ok THEN 1 ELSE 0]]

\* send_and_wait_for_response(message, tag) up to its first suspension: when
\* not connected it awaits connect() first.
SendAndWait(c, api, tag, seq) ==
    IF connected
    THEN Registered(Cur, c, api, tag, seq)
    ELSE /\ call' = [call EXCEPT ![c] = [IdleCall EXCEPT !.pc = "conn", !.api = api,
                                                         !.tag = tag, !.seq = seq]]
         /\ UNCHANGED <<connected, websocket, keep_running, reconnect_attempts,
                        sock, sentOn, loop, response_futures>>

\* A direct call of send_and_wait_for_response (get_condition_list and
\* request_condition_search are such calls made when connected).
StartCall(c, tag) ==
    /\ ~Starved
    /\ UNCHANGED <<downstream, services>>
    /\ FirstIdleCall(c)
    /\ SendAndWait(c, "send_and_wait_for_response", tag, "")
    /\ UNCHANGED <<realtime_handler, registered_items, registered_groups, inbox, op, dispatched>>

\* request_realtime_condition(seq): refuses when not connected, otherwise
\* calls send_and_wait_for_response with the tag CNSRREQ.
StartRealtimeCondition(c, seq) ==
    /\ ~Starved
    /\ UNCHANGED <<downstream, services>>
    /\ FirstIdleCall(c)
    /\ IF connected
       THEN SendAndWait(c, "request_realtime_condition", "CNSRREQ", seq)
       ELSE /\ call' = [call EXCEPT ![c] = [IdleCall EXCEPT !.pc = "done",
                                 !.api = "request_realtime_condition",
                                 !.tag = "CNSRREQ", !.seq = seq, !.ret = "notconnected"]]
            /\ UNCHANGED <<connected, websocket, keep_running, reconnect_attempts,
                           sock, sentOn, loop, response_futures>>
    /\ UNCHANGED <<realtime_handler, registered_items, registered_groups, inbox, op, dispatched>>

\* The connect() awaited by send_and_wait_for_response returns or raises.  It
\* is outside the try block: when it raises, the call raises.
CallConnected(c, ok) ==
    /\ ~Starved
    /\ UNCHANGED <<downstream, services>>
    /\ call[c].pc = "conn"
    /\ ok \in Outcomes
    /\ IF ok
       THEN Registered(ConnectOK(Cur), c, call[c].api, call[c].tag, call[c].seq)
       ELSE /\ Commit(ConnectFail(Cur))
            /\ call' = [call EXCEPT ![c].pc = "done", ![c].ret = "raised"]
            /\ UNCHANGED response_futures
    /\ UNCHANGED <<realtime_handler, registered_items, registered_groups, inbox, op, dispatched>>

\* asyncio.wait_for reaches its timeout: the Future is cancelled; the caller
\* resumes later.
TimeoutFire(c) ==
    /\ ~Starved
    /\ UNCHANGED <<downstream, services>>
    /\ call[c].pc = "wait"
    /\ call[c].fut = "pending"
    /\ call' = [call EXCEPT ![c].fut = "cancelled"]
    /\ UNCHANGED <<connected, websocket, keep_running, reconnect_attempts,
                   realtime_handler, response_futures, registered_items,
                   registered_groups, sock, inbox, sentOn,  op, loop,
                   dispatched>>

\* The caller resumes from wait_for: with the reply, or with the timeout
\* error; the finally block deletes the entry of its tag.
\* request_realtime_condition then records cond_<seq> unless the result has
\* an "error" key (a reply of the venue has none).
CallReturn(c) ==
    /\ ~Starved
    /\ UNCHANGED <<downstream, services>>
    /\ call[c].pc = "wait"
    /\ call[c].fut \in {"done", "cancelled"}
    /\ response_futures' = ForgetFuture(response_futures, call[c].tag)
    /\ call' = [call EXCEPT ![c].pc = "done",
                            ![c].ret = IF call[c].fut = "done" THEN "reply" ELSE "timeout"]
    /\ registered_groups' =
         IF call[c].api = "request_realtime_condition" /\ call[c].fut = "done"
         THEN AddConditionGroup(registered_groups, call[c].seq)
         ELSE registered_groups
    /\ UNCHANGED <<connected, websocket, keep_running, reconnect_attempts,
                   realtime_handler, registered_items, sock, inbox, sentOn, op, loop, dispatched>>

\* --------------------------- callers of connect() and of send_message()
\* send_message(m) up to its first suspension.
SendMessage(o, api, m, ser) ==
    IF connected
    THEN /\ Commit(SendConnected(Cur, m, ser))
         /\ op' = [op EXCEPT ![o] = [pc |-> "done", api |-> api, msg |-> m, ser |-> ser,
                                     ret |-> IF SendOK(Cur, ser) THEN "true" ELSE "false"]]
    ELSE /\ op' = [op EXCEPT ![o] = [pc |-> "conn", api |-> api, msg |-> m, ser |-> ser,
                                     ret |-> "none"]]
         /\ UNCHANGED <<connected, websocket, keep_running, reconnect_attempts,
                        sock, sentOn, loop>>

\* initialize(realtime_handler=h): the handler is stored and connect() is
\* awaited, whatever self.connected is.
Initialize(o, h) ==
    /\ ~Starved
    /\ UNCHANGED <<downstream, services>>
    /\ FirstIdleOp(o)
    /\ realtime_handler' = h
    /\ op' = [op EXCEPT ![o] = [IdleOp EXCEPT !.pc = "conn", !.api = "initialize"]]
    /\ UNCHANGED <<connected, websocket, keep_running, reconnect_attempts,
                   response_futures, registered_items, registered_groups, sock,
                   inbox, sentOn, call, loop, dispatched>>

\* register_real_data(group, items, types, refresh): the mirror is updated,
\* then the REG message is sent.
RegisterRealData(o, g, items, types, refresh) ==
    /\ ~Starved
    /\ UNCHANGED <<downstream, services>>
    /\ FirstIdleOp(o)
    /\ registered_items' = RegisterItems(registered_items, g, items, types, refresh)
    /\ SendMessage(o, "register_real_data", RegMsg(g, items, types, refresh), TRUE)
    /\ UNCHANGED <<realtime_handler, response_futures, registered_groups, inbox,
                   call, dispatched>>

\* send_message(message) with a message of the caller's making; ser = FALSE:
\* json.dumps cannot serialize it.
SendRaw(o, ser) ==
    /\ ~Starved
    /\ UNCHANGED <<downstream, services>>
    /\ FirstIdleOp(o)
    /\ SendMessage(o, "send_message", RawMsg, ser)
    /\ UNCHANGED <<realtime_handler, response_futures, registered_items,
                   registered_groups, inbox, call, dispatched>>

\* The connect() awaited by initialize() or by send_message() returns or
\* raises.  initialize() catches the exception and returns False;
\* send_message() has no handler around its connect(), so it raises too.
OpConnected(o, ok) ==
    /\ ~Starved
    /\ UNCHANGED <<downstream, services>>
    /\ op[o].pc = "conn"
    /\ ok \in Outcomes
    /\ IF ok
       THEN LET T1 == ConnectOK(Cur) IN
            IF op[o].api = "initialize"
            THEN /\ Commit(T1)
                 /\ op' = [op EXCEPT ![o].pc = "done", ![o].ret = "true"]
            ELSE /\ Commit(SendConnected(T1, op[o].msg, op[o].ser))
                 /\ op' = [op EXCEPT ![o].pc = "done",
                                     ![o].ret = IF SendOK(T1, op[o].ser) THEN "true" ELSE "false"]
       ELSE /\ Commit(ConnectFail(Cur))
            /\ op' = [op EXCEPT ![o].pc = "done",
                                ![o].ret = IF op[o].api = "initialize" THEN "false" ELSE "raised"]
    /\ UNCHANGED <<realtime_handler, response_futures, registered_items,
                   registered_groups, inbox, call, dispatched>>

\* --------------------------------------------------------- receive_messages
\* A task created by connect(), or one that slept after an error, runs the
\* head of the loop.
LoopStart(l) ==
    /\ ~Starved
    /\ UNCHANGED <<downstream, services>>
    /\ loop[l].pc \in {"top", "errsleep"}
    /\ Commit(Iter(Cur, l))
    /\ UNCHANGED <<realtime_handler, response_futures, registered_items,
                   registered_groups, inbox,  call, op, dispatched>>

\* recv() completes with the next frame of the socket the task waits on; the
\* task resumes later (Handle).
Recv(l) ==
    /\ ~Starved
    /\ UNCHANGED <<downstream, services>>
    /\ loop[l].pc = "recv"
    /\ inbox[loop[l].sock] # <<>>
    /\ loop' = [loop EXCEPT ![l].pc = "got", ![l].frame = Head(inbox[loop[l].sock])]
    /\ inbox' = [inbox EXCEPT ![loop[l].sock] = Tail(@)]
    /\ UNCHANGED <<connected, websocket, keep_running, reconnect_attempts,
                   realtime_handler, response_futures, registered_items,
                   registered_groups, sock, sentOn,  call, op, dispatched>>

\* recv() raises ConnectionClosed: connected is cleared and try_reconnect is
\* called from the except branch.
RecvClosed(l) ==
    /\ ~Starved
    /\ UNCHANGED <<downstream, services>>
    /\ loop[l].pc = "recv"
    /\ sock[loop[l].sock] = "closed"
    /\ inbox[loop[l].sock] = <<>>
    /\ LET T1 == [Cur EXCEPT !.conn = FALSE] IN
       Commit(IF Retries(T1)
              THEN TryReconnect(T1, l)
              ELSE LoopTop(T1, l))
    /\ UNCHANGED <<realtime_handler, response_futures, registered_items,
                   registered_groups, inbox,  call, op, dispatched>>

\* try_reconnect after its sleep: connect() returns or raises (the exception
\* is caught); either way the loop goes on.
Reconnected(l, ok) ==
    /\ ~Starved
    /\ UNCHANGED <<downstream, services>>
    /\ loop[l].pc = "reconnect"
    /\ ok \in Outcomes
    /\ Commit(Iter(IF ok THEN ConnectOK(Cur) ELSE ConnectFail(Cur), l))
    /\ UNCHANGED <<realtime_handler, response_futures, registered_items,
                   registered_groups, inbox,  call, op, dispatched>>

\* (mutant of SetResult: every pending Future gets the frame)
SetEveryResult(calls, c, f) ==
    [x \in Calls |-> IF calls[x].fut = "pending"
                     THEN [calls[x] EXCEPT !.fut = "done", !.res = f]
                     ELSE calls[x]]

\* The Future of call c gets the frame as its result, unless it is done.
SetResult(calls, c, f) ==
    IF calls[c].fut = "pending"
    THEN [calls EXCEPT ![c].fut = "done", ![c].res = f]
    ELSE calls

\* One iteration of the loop on the frame that recv() returned.
Handle(l) ==
    /\ ~Starved
    /\ UNCHANGED <<downstream, services>>
    /\ loop[l].pc = "got"
    /\ LET f == loop[l].frame
           k == Classify(f, response_futures, realtime_handler)
       IN /\ IF k = "ping"
             THEN IF connected
                  THEN Commit(Iter(SendConnected(Cur, EchoMsg(f), TRUE), l))
                  ELSE /\ loop' = [loop EXCEPT ![l].pc = "conn_echo"]
                       /\ UNCHANGED <<connected, websocket, keep_running,
                                      reconnect_attempts, sock, sentOn>>
             ELSE IF k = "login" /\ f.return_code # 0
                  THEN Commit(Iter(Disconnect(Cur), l))
                  ELSE Commit(Iter(Cur, l))
          /\ call' = IF k = "future" THEN SetResult(call, response_futures[f.trnm], f)
                     ELSE call
          /\ dispatched' = IF k = "push" THEN {f} ELSE {}
    /\ UNCHANGED <<realtime_handler, response_futures, registered_items,
                   registered_groups, inbox,  op>>

\* The connect() awaited by the send_message of the heartbeat echo returns
\* (the echo is sent on the new socket) or raises (caught by the loop's
\* `except Exception`, which sleeps one second).
EchoConnected(l, ok) ==
    /\ ~Starved
    /\ UNCHANGED <<downstream, services>>
    /\ loop[l].pc = "conn_echo"
    /\ ok \in Outcomes
    /\ Commit(IF ok
              THEN Iter(SendConnected(ConnectOK(Cur), EchoMsg(loop[l].frame), TRUE), l)
              ELSE [ConnectFail(Cur) EXCEPT !.loop[l].pc = "errsleep",
                                            !.loop[l].frame = NoFrame])
    /\ UNCHANGED <<realtime_handler, response_futures, registered_items,
                   registered_groups, inbox,  call, op, dispatched>>

\* ----------------------------------------------------------------- the venue
\* What the venue may send: login replies, heartbeats, pushes, and replies to
\* requests that were sent (also late and repeated ones).
VenueFrames ==
    {Frame("LOGIN", rc, 0) : rc \in {0, 1}}
    \cup {Frame("PING", 0, b) : b \in PingBodies}
    \cup {Frame("REAL", 0, 0)}
    \cup {Frame(call[c].tag, 0, c) : c \in {x \in Calls : call[x].sends > 0}}

VenueSend(s, f) ==
    /\ ~Starved
    /\ UNCHANGED <<downstream, services>>
    /\ sock[s] = "open"
    /\ Len(inbox[s]) < MaxInbox
    /\ f \in VenueFrames
    /\ inbox' = [inbox EXCEPT ![s] = Append(@, f)]
    /\ UNCHANGED <<connected, websocket, keep_running, reconnect_attempts,
                   realtime_handler, response_futures, registered_items,
                   registered_groups, sock, sentOn,  call, op, loop,
                   dispatched>>

VenueClose(s) ==
    /\ ~Starved
    /\ UNCHANGED <<downstream, services>>
    /\ sock[s] = "open"
    /\ sock' = [sock EXCEPT ![s] = "closed"]
    /\ UNCHANGED <<connected, websocket, keep_running, reconnect_attempts,
                   realtime_handler, response_futures, registered_items,
                   registered_groups, inbox, sentOn,  call, op, loop,
                   dispatched>>

Next ==
    \/ \E c \in Calls, t \in ReqTags : StartCall(c, t)
    \/ \E c \in Calls, q \in Seqs : StartRealtimeCondition(c, q)
    \/ \E c \in Calls, ok \in BOOLEAN : CallConnected(c, ok)
    \/ \E c \in Calls : TimeoutFire(c)
    \/ \E c \in Calls : CallReturn(c)
    \/ \E o \in Ops, h \in BOOLEAN : Initialize(o, h)
    \/ \E o \in Ops, g \in Groups, i \in ItemLists, k \in TypeLists, r \in BOOLEAN :
          RegisterRealData(o, g, i, k, r)
    \/ \E o \in Ops, ser \in BOOLEAN : SendRaw(o, ser)
    \/ \E o \in Ops, ok \in BOOLEAN : OpConnected(o, ok)
    \/ \E l \in Loops : LoopStart(l)
    \/ \E l \in Loops : Recv(l)
    \/ \E l \in Loops : RecvClosed(l)
    \/ \E l \in Loops, ok \in BOOLEAN : Reconnected(l, ok)
    \/ \E l \in Loops : Handle(l)
    \/ \E l \in Loops, ok \in BOOLEAN : EchoConnected(l, ok)
    \/ \E s \in Socks, f \in VenueFrames : VenueSend(s, f)
    \/ \E s \in Socks : VenueClose(s)

Spec == Init /\ [][Next]_vars

\* The client right after a first `await connect()` that succeeded: the state
\* connect() makes from the constructed one, with its receive task created
\* and not yet run.
Constructed == [conn |-> FALSE, ws |-> None, kr |-> TRUE, ra |-> 0,
                sock |-> [s \in Socks |-> "unopened"], sent |-> {},
                loop |-> [l \in Loops |-> NoLoop]]

InitConnected ==
    /\ connected = ConnectOK(Constructed).conn
    /\ websocket = ConnectOK(Constructed).ws
    /\ keep_running = ConnectOK(Constructed).kr
    /\ reconnect_attempts = ConnectOK(Constructed).ra
    /\ sock = ConnectOK(Constructed).sock
    /\ sentOn = ConnectOK(Constructed).sent
    /\ loop = ConnectOK(Constructed).loop
    /\ realtime_handler = FALSE
    /\ response_futures = EmptyDict
    /\ registered_items = EmptyDict
    /\ registered_groups = <<>>
    /\ inbox = [s \in Socks |-> <<>>]
    /\ call = [c \in Calls |-> IdleCall]
    /\ op = [o \in Ops |-> IdleOp]
    /\ dispatched = {}
    /\ NoListeners
    /\ NoServices

SpecConnected == InitConnected /\ [][Next]_vars

\* ------------------------------------------- the registry, all its operations
\* The callers of the registry operations, one call at a time.
RGroups == {"1"}
RItemLists == {<<"005930">>, <<"000660">>, <<"005930", "000660">>}
RTypeLists == {<<"0D">>, <<"01">>, <<"0D", "01">>}
NoneArg == <<"None">>     \* an argument left at its default, None

RemoveMsg(g, i, k) == Msg("REMOVE", 0, "", g, i, k, "")
UnregMsg(g) == Msg("UNREG", 0, "", g, <<>>, <<>>, "")

\* list.remove(x): the first occurrence is taken out.
RECURSIVE Remove(_, _)
Remove(lst, x) ==
    IF lst = <<>> THEN lst
    ELSE IF Head(lst) = x THEN Tail(lst)
    ELSE <<Head(lst)>> \o Remove(Tail(lst), x)

\* for type_code in types: if type_code in lst: lst.remove(type_code)
RECURSIVE RemoveTypes(_, _)
RemoveTypes(lst, types) ==
    IF types = <<>> THEN lst
    ELSE RemoveTypes(IF InList(lst, Head(types)) THEN Remove(lst, Head(types)) ELSE lst,
                     Tail(types))

\* The loop over items of remove_items_from_group and of
\* unsubscribe_realtime_price: the types are removed from each item that is
\* registered, and an item left without types is deleted.
RECURSIVE RemoveItems(_, _, _)
RemoveItems(m, items, types) ==
    IF items = <<>> THEN m
    ELSE LET i == Head(items) IN
         IF Has(m, i)
         THEN LET l == RemoveTypes(m[i], types)
              IN RemoveItems(IF l = <<>> THEN Del(m, i) ELSE Put(m, i, l), Tail(items), types)
         ELSE RemoveItems(m, Tail(items), types)

\* remove_items_from_group: the mirror update.
RemoveFromGroup(reg, g, items, types) ==
    IF Has(reg, g) THEN Put(reg, g, RemoveItems(reg[g], items, types)) ELSE reg

\* unregister_group: the mirror update.
DropGroup(reg, g) == IF Has(reg, g) THEN Del(reg, g) ELSE reg

\* subscribe_realtime_price before its send: the branches on refresh are the
\* other way round here, so the group's map is emptied when refresh is False.
BeforeSubscribe(reg, g, refresh) ==
    IF ~refresh THEN Put(reg, g, EmptyDict)
    ELSE IF Has(reg, g) THEN reg ELSE Put(reg, g, EmptyDict)

\* subscribe_realtime_price: both mirror updates, the one before the send and
\* the one after it (the same statements as in register_real_data).
SubscribeItems(reg, g, items, types, refresh) ==
    RegisterItems(BeforeSubscribe(reg, g, refresh), g, items, types, refresh)

\* unsubscribe_realtime_price with data_types=None: all_data_types, the kinds
\* of the listed items, and the lists that list(all_data_types) may be.
KindsOf(m, items) ==
    {k \in UNION {{m[i][n] : n \in 1..Len(m[i])} : i \in DOMAIN m} :
        \E n \in 1..Len(items) : Has(m, items[n]) /\ InList(m[items[n]], k)}
ListsOf(S) == {q \in [1..Cardinality(S) -> S] : \A x \in S : InList(q, x)}

\* (mutant of UnsubscribeCheck: the kinds are not tested against the items)
UnsubscribeCheckNoKinds(reg, conn, g, items, types) ==
    IF ~conn THEN "notconnected"
    ELSE IF ~Has(reg, g) THEN "nogroup"
    ELSE IF items = NoneArg /\ types = NoneArg THEN "group"
    ELSE IF items = NoneArg \/ items = <<>> THEN "noitems"
    ELSE IF \E n \in 1..Len(items) : ~Has(reg[g], items[n]) THEN "invalid_items"
    ELSE "items"

\* The tests unsubscribe_realtime_price makes before it sends anything.
UnsubscribeCheck(reg, conn, g, items, types) ==
    IF ~conn THEN "notconnected"
    ELSE IF ~Has(reg, g) THEN "nogroup"
    ELSE IF items = NoneArg /\ types = NoneArg THEN "group"
    ELSE IF items = NoneArg \/ items = <<>> THEN "noitems"
    ELSE IF \E n \in 1..Len(items) : ~Has(reg[g], items[n]) THEN "invalid_items"
    ELSE IF types = NoneArg THEN "items"
    ELSE IF \E n \in 1..Len(items), t \in 1..Len(types) : ~InList(reg[g][items[n]], types[t])
         THEN "invalid_types"
    ELSE "items"

\* unsubscribe_realtime_price after a send that succeeded: the types are
\* removed, then a group left without items is deleted.
UnsubscribeItems(reg, g, items, types) ==
    LET m == RemoveItems(reg[g], items, types)
    IN IF DOMAIN m = {} THEN Del(reg, g) ELSE Put(reg, g, m)

\* What a call recorded in op was given.
Args(g, items, types, refresh) ==
    [group_no |-> g, items |-> items, data_types |-> types, refresh |-> refresh]
RegistryOp(api, m, ret, a) ==
    [pc |-> "done", api |-> api, msg |-> m, ser |-> TRUE, ret |-> ret, args |-> a]

\* remove_items_from_group(group, items, types): the mirror is updated, then
\* the REMOVE message is sent.
RemoveItemsFromGroup(o, g, items, types) ==
    /\ ~Starved
    /\ UNCHANGED <<downstream, services>>
    /\ FirstIdleOp(o)
    /\ registered_items' = RemoveFromGroup(registered_items, g, items, types)
    /\ SendMessage(o, "remove_items_from_group", RemoveMsg(g, items, types), TRUE)
    /\ UNCHANGED <<realtime_handler, response_futures, registered_groups, inbox,
                   call, dispatched>>

\* unregister_group(group): the group is deleted from the mirror, then the
\* UNREG message is sent.
UnregisterGroup(o, g) ==
    /\ ~Starved
    /\ UNCHANGED <<downstream, services>>
    /\ FirstIdleOp(o)
    /\ registered_items' = DropGroup(registered_items, g)
    /\ SendMessage(o, "unregister_group", UnregMsg(g), TRUE)
    /\ UNCHANGED <<realtime_handler, response_futures, registered_groups, inbox,
                   call, dispatched>>

\* subscribe_realtime_price(group, items, data_types, refresh).  It returns an
\* error at once when not connected; otherwise send_message finds connected
\* set and does not suspend in connect().
SubscribeRealtimePrice(o, g, items, types, refresh) ==
    /\ ~Starved
    /\ UNCHANGED <<downstream, services>>
    /\ FirstIdleOp(o)
    /\ LET a == Args(g, items, types, refresh)
           its == IF items = NoneArg THEN <<>> ELSE items
           ts == IF types = NoneArg THEN <<"0D">> ELSE types
           m == RegMsg(g, its, ts, refresh)
       IN IF ~connected
          THEN /\ op' = [op EXCEPT ![o] = RegistryOp("subscribe_realtime_price", NoMsg,
                                                     "notconnected", a)]
               /\ UNCHANGED <<connected, websocket, keep_running, reconnect_attempts,
                              sock, sentOn, loop, registered_items>>
          ELSE /\ Commit(SendConnected(Cur, m, TRUE))
               /\ registered_items' = SubscribeItems(registered_items, g, its, ts, refresh)
               /\ op' = [op EXCEPT ![o] = RegistryOp("subscribe_realtime_price", m,
                              IF SendOK(Cur, TRUE) THEN "success" ELSE "error", a)]
    /\ UNCHANGED <<realtime_handler, response_futures, registered_groups, inbox,
                   call, dispatched>>

\* unsubscribe_realtime_price(group, items, data_types).  The mirror is
\* changed only after a send that succeeded.
UnsubscribeRealtimePrice(o, g, items, types) ==
    /\ ~Starved
    /\ UNCHANGED <<downstream, services>>
    /\ FirstIdleOp(o)
    /\ LET a == Args(g, items, types, FALSE)
           k == UnsubscribeCheck(registered_items, connected, g, items, types)
       IN IF k = "group"
          THEN /\ Commit(SendConnected(Cur, RemoveMsg(g, <<>>, <<>>), TRUE))
               /\ registered_items' = IF SendOK(Cur, TRUE) THEN Del(registered_items, g)
                                      ELSE registered_items
               /\ op' = [op EXCEPT ![o] = RegistryOp("unsubscribe_realtime_price",
                              RemoveMsg(g, <<>>, <<>>),
                              IF SendOK(Cur, TRUE) THEN "success" ELSE "error", a)]
          ELSE IF k = "items"
          THEN \E ts \in IF types = NoneArg
                         THEN ListsOf(KindsOf(registered_items[g], items))
                         ELSE {types} :
                  /\ Commit(SendConnected(Cur, RemoveMsg(g, items, ts), TRUE))
                  /\ registered_items' = IF SendOK(Cur, TRUE)
                                         THEN UnsubscribeItems(registered_items, g, items, ts)
                                         ELSE registered_items
                  /\ op' = [op EXCEPT ![o] = RegistryOp("unsubscribe_realtime_price",
                                 RemoveMsg(g, items, ts),
                                 IF SendOK(Cur, TRUE) THEN "success" ELSE "error", a)]
          ELSE /\ op' = [op EXCEPT ![o] = RegistryOp("unsubscribe_realtime_price", NoMsg, k, a)]
               /\ UNCHANGED <<connected, websocket, keep_running, reconnect_attempts,
                              sock, sentOn, loop, registered_items>>
    /\ UNCHANGED <<realtime_handler, response_futures, registered_groups, inbox,
                   call, dispatched>>

\* One call at a time: a sequence of calls.
NoCallRunning == \A p \in Ops : op[p].pc \in {"idle", "done"}

NextRegistry ==
    \/ \E o \in Ops, g \in RGroups, i \in RItemLists, k \in RTypeLists, r \in BOOLEAN :
          NoCallRunning /\ RegisterRealData(o, g, i, k, r)
    \/ \E o \in Ops, g \in RGroups, i \in RItemLists, k \in RTypeLists :
          NoCallRunning /\ RemoveItemsFromGroup(o, g, i, k)
    \/ \E o \in Ops, g \in RGroups : NoCallRunning /\ UnregisterGroup(o, g)
    \/ \E o \in Ops, g \in RGroups, i \in RItemLists \cup {NoneArg},
          k \in RTypeLists \cup {NoneArg}, r \in BOOLEAN :
          NoCallRunning /\ SubscribeRealtimePrice(o, g, i, k, r)
    \/ \E o \in Ops, g \in RGroups, i \in RItemLists \cup {NoneArg},
          k \in RTypeLists \cup {NoneArg} :
          NoCallRunning /\ UnsubscribeRealtimePrice(o, g, i, k)
    \/ \E o \in Ops, ok \in BOOLEAN : OpConnected(o, ok)
    \/ \E s \in Socks : VenueClose(s)

\* The mirrors that two calls of register_real_data leave behind.
Registries ==
    {EmptyDict} \cup
    {RegisterItems(RegisterItems(EmptyDict, g, i1, k1, FALSE), g, i2, k2, FALSE) :
        g \in RGroups, i1 \in RItemLists, i2 \in RItemLists,
        k1 \in RTypeLists, k2 \in RTypeLists}

\* A connected client with such a mirror, no call running.
InitRegistry ==
    /\ connected = ConnectOK(Constructed).conn
    /\ websocket = ConnectOK(Constructed).ws
    /\ keep_running = ConnectOK(Constructed).kr
    /\ reconnect_attempts = ConnectOK(Constructed).ra
    /\ sock = ConnectOK(Constructed).sock
    /\ sentOn = ConnectOK(Constructed).sent
    /\ loop = ConnectOK(Constructed).loop
    /\ realtime_handler = FALSE
    /\ response_futures = EmptyDict
    /\ registered_items \in Registries
    /\ registered_groups = <<>>
    /\ inbox = [s \in Socks |-> <<>>]
    /\ call = [c \in Calls |-> IdleCall]
    /\ op = [o \in Ops |-> IdleOp]
    /\ dispatched = {}
    /\ NoListeners
    /\ NoServices

SpecRegistry == InitRegistry /\ [][NextRegistry]_vars

\* In this section a send to a downstream websocket is taken to complete, or
\* to raise, within the stretch that calls it: a broadcast is one step.

\* connect(): the loop `for group in groups` that appends the websocket to the
\* member list of each group.
RECURSIVE JoinAll(_, _, _)
JoinAll(cg, groups, w) ==
    IF groups = <<>> THEN cg
    ELSE LET g == Head(groups)
             c1 == IF Has(cg, g) THEN cg ELSE Put(cg, g, <<>>)
         IN JoinAll(Put(c1, g, Append(c1[g], w)), Tail(groups), w)

\* connect(websocket, groups=groups) after accept().
CMConnect(M, w, groups) ==
    [ac |-> Append(M.ac, [websocket |-> w, groups |-> groups]),
     cg |-> JoinAll(M.cg, groups, w)]

\* next((conn for conn in active_connections if conn["websocket"] == w), None),
\* as an index; 0 for None.
RECURSIVE FindConnection(_, _, _)
FindConnection(ac, w, n) ==
    IF n > Len(ac) THEN 0
    ELSE IF ac[n].websocket = w THEN n
    ELSE FindConnection(ac, w, n + 1)

\* disconnect(): the loop over connection["groups"].
RECURSIVE LeaveAll(_, _, _)
LeaveAll(cg, groups, w) ==
    IF groups = <<>> THEN cg
    ELSE LET g == Head(groups) IN
         IF Has(cg, g) /\ InList(cg[g], w)
         THEN LET l == Remove(cg[g], w)
              IN LeaveAll(IF l = <<>> THEN Del(cg, g) ELSE Put(cg, g, l), Tail(groups), w)
         ELSE LeaveAll(cg, Tail(groups), w)

\* (mutant of CMDisconnect: the group lists are left as they are)
CMDisconnectListOnly(M, w) ==
    LET n == FindConnection(M.ac, w, 1) IN
    IF n = 0 THEN M
    ELSE [ac |-> Remove(M.ac, M.ac[n]), cg |-> M.cg]

\* disconnect(websocket)
CMDisconnect(M, w) ==
    LET n == FindConnection(M.ac, w, 1) IN
    IF n = 0 THEN M
    ELSE [ac |-> Remove(M.ac, M.ac[n]), cg |-> LeaveAll(M.cg, M.ac[n].groups, w)]

\* The cleanup loop of a broadcast: for websocket in disconnected.
RECURSIVE DisconnectAll(_, _)
DisconnectAll(M, ws) ==
    IF ws = <<>> THEN M ELSE DisconnectAll(CMDisconnect(M, Head(ws)), Tail(ws))

\* (mutant of SendAll: the loop ends at the first send that raises)
RECURSIVE SendUntilRaise(_, _)
SendUntilRaise(ws, chan) ==
    IF ws = <<>> THEN [got |-> <<>>, disconnected |-> <<>>]
    ELSE IF chan[Head(ws)].channel = "open"
         THEN LET r == SendUntilRaise(Tail(ws), chan)
              IN [r EXCEPT !.got = <<Head(ws)>> \o @]
         ELSE [got |-> <<>>, disconnected |-> <<Head(ws)>>]

\* The send loop of a broadcast over the list ws: a send that raises is
\* caught, its websocket is noted in `disconnected`, and the loop goes on.
RECURSIVE SendAll(_, _)
SendAll(ws, chan) ==
    IF ws = <<>> THEN [got |-> <<>>, disconnected |-> <<>>]
    ELSE LET r == SendAll(Tail(ws), chan) IN
         IF chan[Head(ws)].channel = "open"
         THEN [r EXCEPT !.got = <<Head(ws)>> \o @]
         ELSE [r EXCEPT !.disconnected = <<Head(ws)>> \o @]

Manager == [ac |-> active_connections, cg |-> client_groups]
Range(q) == {q[n] : n \in 1..Len(q)}
Outcome(kind, g, r) ==
    [kind |-> kind, group |-> g, got |-> Range(r.got), failed |-> Range(r.disconnected),
     tick |-> 1 - delivered.tick]
relay == <<connected, websocket, keep_running, reconnect_attempts, realtime_handler,
           response_futures, registered_items, registered_groups, sock, inbox,
           sentOn, call, op, loop, dispatched>>

\* market_websocket (api/endpoints/realtime.py): a client connects and the
\* endpoint calls connection_manager.connect(websocket), without groups.
AcceptEndpoint(w) ==
    /\ ~Starved
    /\ listener[w].st = "new"
    /\ active_connections' = CMConnect(Manager, w, <<>>).ac
    /\ client_groups' = CMConnect(Manager, w, <<>>).cg
    /\ listener' = [listener EXCEPT ![w].st = "endpoint"]
    /\ UNCHANGED <<relay, services, websocket_clients, delivered>>

\* connection_manager.connect(websocket, groups=groups) with groups to join.
ConnectWithGroups(w, groups) ==
    /\ ~Starved
    /\ listener[w].st = "new"
    /\ active_connections' = CMConnect(Manager, w, groups).ac
    /\ client_groups' = CMConnect(Manager, w, groups).cg
    /\ listener' = [listener EXCEPT ![w].st = "manager", ![w].groups = groups]
    /\ UNCHANGED <<relay, services, websocket_clients, delivered>>

\* market_websocket after a register or subscribe command that succeeded:
\* the group is appended to connection_info["groups"].
JoinGroup(w, g) ==
    /\ ~Starved
    /\ listener[w].st = "endpoint"
    /\ LET n == FindConnection(active_connections, w, 1) IN
       /\ n # 0
       /\ ~InList(active_connections[n].groups, g)
       /\ active_connections' = [active_connections EXCEPT ![n].groups = Append(@, g)]
    /\ UNCHANGED <<relay, services, client_groups, websocket_clients, listener, delivered>>

\* market_websocket after an unsubscribe of a whole group (or a cancelled
\* condition): the group is removed from connection_info["groups"].
LeaveGroup(w, g) ==
    /\ ~Starved
    /\ listener[w].st = "endpoint"
    /\ LET n == FindConnection(active_connections, w, 1) IN
       /\ n # 0
       /\ InList(active_connections[n].groups, g)
       /\ active_connections' = [active_connections EXCEPT ![n].groups = Remove(@, g)]
    /\ UNCHANGED <<relay, services, client_groups, websocket_clients, listener, delivered>>

\* The client goes away (WebSocketDisconnect): connection_manager.disconnect.
ClientDisconnects(w) ==
    /\ ~Starved
    /\ listener[w].st \in {"endpoint", "manager"}
    /\ active_connections' = CMDisconnect(Manager, w).ac
    /\ client_groups' = CMDisconnect(Manager, w).cg
    /\ listener' = [listener EXCEPT ![w].st = "gone"]
    /\ UNCHANGED <<relay, services, websocket_clients, delivered>>

\* A channel becomes half-closed: a send to it raises from now on.
ChannelBreaks(w) ==
    /\ ~Starved
    /\ listener[w].st \in {"endpoint", "manager", "handler"}
    /\ listener[w].channel = "open"
    /\ listener' = [listener EXCEPT ![w].channel = "broken"]
    /\ UNCHANGED <<relay, services, active_connections, client_groups, websocket_clients, delivered>>

\* ConnectionManager.broadcast(message)
Broadcast ==
    /\ ~Starved
    /\ LET r == SendAll([n \in 1..Len(active_connections) |-> active_connections[n].websocket],
                        listener)
           M == DisconnectAll(Manager, r.disconnected)
       IN /\ active_connections' = M.ac
          /\ client_groups' = M.cg
          /\ delivered' = Outcome("broadcast", "", r)
    /\ UNCHANGED <<relay, services, websocket_clients, listener>>

\* ConnectionManager.broadcast_to_group(group, message)
BroadcastToGroup(g) ==
    /\ ~Starved
    /\ LET r == SendAll(IF Has(client_groups, g) THEN client_groups[g] ELSE <<>>, listener)
           M == DisconnectAll(Manager, r.disconnected)
       IN /\ active_connections' = M.ac
          /\ client_groups' = M.cg
          /\ delivered' = Outcome("group", g, r)
    /\ UNCHANGED <<relay, services, websocket_clients, listener>>

\* The cleanup loop of broadcast_to_clients: unregister_client for each
\* websocket whose send raised.
RECURSIVE UnregisterAll(_, _)
UnregisterAll(clients, ws) ==
    IF ws = <<>> THEN clients
    ELSE UnregisterAll(IF InList(clients, Head(ws)) THEN Remove(clients, Head(ws)) ELSE clients,
                       Tail(ws))

\* market_websocket (api/endpoints/server_sockets.py): a client connects and
\* the endpoint calls realtime_handler.register_client(websocket).
RegisterClient(w) ==
    /\ ~Starved
    /\ listener[w].st = "new"
    /\ websocket_clients' = IF InList(websocket_clients, w) THEN websocket_clients
                            ELSE Append(websocket_clients, w)
    /\ listener' = [listener EXCEPT ![w].st = "handler"]
    /\ UNCHANGED <<relay, services, active_connections, client_groups, delivered>>

\* That client goes away: realtime_handler.unregister_client(websocket).
UnregisterClient(w) ==
    /\ ~Starved
    /\ listener[w].st = "handler"
    /\ websocket_clients' = UnregisterAll(websocket_clients, <<w>>)
    /\ listener' = [listener EXCEPT ![w].st = "gone"]
    /\ UNCHANGED <<relay, services, active_connections, client_groups, delivered>>

\* RealtimeHandler.broadcast_to_clients(message); it returns at once when
\* there is no client.
BroadcastToClients ==
    /\ ~Starved
    /\ websocket_clients # <<>>
    /\ LET r == SendAll(websocket_clients, listener)
       IN /\ websocket_clients' = UnregisterAll(websocket_clients, r.disconnected)
          /\ delivered' = Outcome("clients", "", r)
    /\ UNCHANGED <<relay, services, active_connections, client_groups, listener>>

NextListeners ==
    \/ \E w \in Listeners : AcceptEndpoint(w)
    \/ \E w \in Listeners, gs \in GroupLists : ConnectWithGroups(w, gs)
    \/ \E w \in Listeners, g \in LGroups : JoinGroup(w, g)
    \/ \E w \in Listeners, g \in LGroups : LeaveGroup(w, g)
    \/ \E w \in Listeners : ClientDisconnects(w)
    \/ \E w \in Listeners : ChannelBreaks(w)
    \/ Broadcast
    \/ \E g \in LGroups : BroadcastToGroup(g)
    \/ \E w \in Listeners : RegisterClient(w)
    \/ \E w \in Listeners : UnregisterClient(w)
    \/ BroadcastToClients

SpecListeners == Init /\ [][NextListeners]_vars

\* ------------------------------------------- push events and the cache
\* services/realtime_handler.py (process_real_time_data) and the helpers of
\* db/redis_client.py.
Kinds == {"0D", "0B", "01"}
Instruments == {"005930"}
Values == {1, 2}
ItemData(k, i, v) == [type |-> k, item |-> i, values |-> v]
\* message.get("data", []) of a REAL frame: no item, or one.
Messages == {<<>>} \cup {<<ItemData(k, i, v)>> : k \in Kinds, i \in Instruments, v \in Values}

\* init_redis() at application start, close_redis() at its end.
InitRedis ==
    /\ redis_client = "none"
    /\ redis_client' = "conn"
    /\ UNCHANGED <<relay, downstream, front, redis, handler_redis, processed, clock>>

CloseRedis ==
    /\ redis_client = "conn"
    /\ redis_client' = "none"
    /\ UNCHANGED <<relay, downstream, front, redis, handler_redis, processed, clock>>

\* A second passes.
Tick ==
    /\ clock < MaxClock
    /\ clock' = clock + 1
    /\ UNCHANGED <<relay, downstream, front, redis, redis_client, handler_redis, processed>>

\* RealtimeHandler.initialize(): get_redis_connection() raises while the
\* global connection is None; the exception is caught and the field stays.
HandlerInitialize(hr, rc) == IF rc = "none" THEN hr ELSE rc

\* save_hash_data(hash_name, key, value), called with the positional
\* arguments args: a call with another number of arguments raises TypeError
\* before the body runs; the body takes the global connection (it raises when
\* there is none) and writes the field of the hash.  It returns None.
SaveHashData(args, rc, R) ==
    IF Len(args) # 3 THEN [raised |-> "TypeError", redis |-> R]
    ELSE IF rc = "none" THEN [raised |-> "Exception", redis |-> R]
    ELSE [raised |-> "no", redis |-> HSet(R, args[1], args[2], args[3])]

\* Step 1 of process_real_time_data, for the first item of the event:
\* asyncio.create_task(save_hash_data(self.redis_client, type_code, item_code,
\* values)).  The argument is evaluated first: four arguments are passed to
\* save_hash_data.  Had the call returned, its result None is no coroutine and
\* create_task raises TypeError.  Either way the exception leaves the loop.
CacheTasks(hr, rc, R, data) ==
    IF hr = "none" \/ data = <<>>
    THEN [raised |-> FALSE, redis |-> R]
    ELSE LET d == Head(data)
         IN [raised |-> TRUE,
             redis |-> SaveHashData(<<hr, d.type, d.item, d.values>>, rc, R).redis]

\* What a call left behind.
Processed(api, data, cache, broadcast, at) ==
    [api |-> api, data |-> data, cache |-> cache, broadcast |-> broadcast, at |-> at]

\* process_real_time_data(message): the Redis connection is fetched when the
\* handler has none; the cache tasks are created (step 1), then the broadcast
\* task (step 2) and the per-kind handler tasks (step 3, they read the cache
\* and change nothing), and all are awaited.  An exception on the way is
\* caught by the `except Exception` around the whole body, which only logs:
\* the tasks not yet created are never created.
ProcessRealTimeData(data) ==
    /\ Len(processed) < MaxEvents
    /\ LET hr == IF handler_redis = "none" THEN HandlerInitialize(handler_redis, redis_client)
                 ELSE handler_redis
           c == CacheTasks(hr, redis_client, redis, data)
           r == SendAll(websocket_clients, listener)
       IN /\ handler_redis' = hr
          /\ redis' = c.redis
          /\ IF c.raised
             THEN /\ processed' = Append(processed,
                        Processed("process_real_time_data", data, "raised", FALSE, clock))
                  /\ UNCHANGED <<websocket_clients, delivered>>
             ELSE /\ processed' = Append(processed,
                        Processed("process_real_time_data", data, "none", TRUE, clock))
                  /\ websocket_clients' = UnregisterAll(websocket_clients, r.disconnected)
                  /\ delivered' = Outcome("clients", "", r)
    /\ UNCHANGED <<relay, front, redis_client, clock, active_connections, client_groups, listener>>

\* ---------------------------------------------- db/redis_client.py stores
max_transactions == 100   \* store_realtime_transaction(max_transactions=100)

\* store_realtime_quote(redis_client, item_code, quote_data): the quote, with
\* the time of the write, replaces the value of the key quote:<item>, and the
\* item gets the time as its score in recent_quotes.
StoreRealtimeQuote(R, item, values, now) ==
    ZAdd(Set(R, <<"quote", item>>, [values |-> values, timestamp |-> now]),
         <<"recent_quotes">>, item, now)

\* store_realtime_transaction(redis_client, item_code, transaction_data): the
\* transaction, with the time of the write, is pushed on the head of the list
\* transactions:<item>, which is cut to its first max_transactions elements.
StoreRealtimeTransaction(R, item, values, now) ==
    LTrim(LPush(R, <<"transactions", item>>, [values |-> values, timestamp |-> now]),
          <<"transactions", item>>, 0, max_transactions - 1)

\* get_recent_transactions(redis_client, item_code, count)
GetRecentTransactions(R, item, count) == LRange(R, <<"transactions", item>>, 0, count - 1)

\* store_realtime_market_data(redis_client, data), the loop over the items:
\* a quote for kind 0D, a transaction for kind 01, nothing for another kind.
RECURSIVE StoreItems(_, _, _)
StoreItems(R, data, now) ==
    IF data = <<>> THEN R
    ELSE LET d == Head(data)
             R1 == IF d.type = "0D" THEN StoreRealtimeQuote(R, d.item, d.values, now)
                   ELSE IF d.type = "01" THEN StoreRealtimeTransaction(R, d.item, d.values, now)
                   ELSE R
         IN StoreItems(R1, Tail(data), now)

\* handle_realtime_data(data) of db/redis_client.py: get_redis_connection()
\* raises while there is no global connection; otherwise the items of the
\* event are stored.
HandleRealtimeData(data) ==
    /\ Len(processed) < MaxEvents
    /\ IF redis_client = "none"
       THEN /\ processed' = Append(processed,
                   Processed("handle_realtime_data", data, "raised", FALSE, clock))
            /\ UNCHANGED redis
       ELSE /\ processed' = Append(processed,
                   Processed("handle_realtime_data", data, "stored", FALSE, clock))
            /\ redis' = StoreItems(redis, data, clock)
    /\ UNCHANGED <<relay, downstream, front, redis_client, handler_redis, clock>>

\* ------------------------------------ services/trade_intensity_signal.py
window == 300             \* five minutes, in seconds
\* The time of a trade: the second given by field 20 of the event (HHMMSS).
TradeTimes == {1000, 1001, 1400}
Volumes == {10, 20}

\* _store_trade_data(stock_code, timestamp, volume, is_buy): the trade is the
\* value of the key trade:<code>:<timestamp>, the key is a member of the
\* sorted set trades:<code> with the timestamp as score, and the members
\* older than five minutes are removed from the sorted set.
StoreTrade(R, code, ts, volume, is_buy) ==
    LET trade_key == <<"trade", code, ts>>
        trades_key == <<"trades", code>>
        R1 == Set(R, trade_key, [timestamp |-> ts, volume |-> volume, is_buy |-> is_buy])
        R2 == ZAdd(R1, trades_key, trade_key, ts)
    IN ZRemRangeByScore(R2, trades_key, 0, ts - window)

StoreTradeData(code, ts, volume, is_buy) ==
    /\ Len(processed) < MaxEvents
    /\ redis' = StoreTrade(redis, code, ts, volume, is_buy)
    /\ processed' = Append(processed,
           Processed("_store_trade_data", <<ItemData("0B", code, volume)>>, "stored", FALSE, ts))
    /\ UNCHANGED <<relay, downstream, front, redis_client, handler_redis, clock>>

\* Push events handled by RealtimeHandler, with two of its clients.
CacheListeners == {"w1", "w2"}
NextCache ==
    \/ InitRedis
    \/ CloseRedis
    \/ \E w \in CacheListeners : RegisterClient(w)
    \/ \E w \in CacheListeners : ChannelBreaks(w)
    \/ \E w \in CacheListeners : UnregisterClient(w)
    \/ \E m \in Messages : ProcessRealTimeData(m)

SpecCache == Init /\ [][NextCache]_vars

\* Events stored by the helpers of db/redis_client.py and by
\* TradeIntensitySignal as time passes.
NextStores ==
    \/ InitRedis
    \/ Tick
    \/ \E m \in Messages : HandleRealtimeData(m)
    \/ \E i \in Instruments, ts \in TradeTimes, v \in Volumes, b \in BOOLEAN :
          StoreTradeData(i, ts, v, b)

SpecStores == Init /\ [][NextStores]_vars

\* ------------------------------------------------- the REST endpoints
\* api/endpoints/{account,market,orders,realtime}.py: the handlers that call
\* into KiwoomClient, by where they test kiwoom_client.connected.
\* The test is the first statement of the body, outside any try block.
GuardBeforeTry == {"subscribe_realtime_price", "unsubscribe_realtime_price", "unsubscribe_group"}
\* The test is the first statement of a try block whose only handler is
\* `except Exception as e: raise HTTPException(status_code=500, ...)`.
GuardInTry ==
    {"get_deposit_detail", "get_order_detail", "get_daily_trading_log",
     "get_outstanding_orders", "get_executed_orders", "get_daily_item_realized_profit",
     "get_daily_realized_profit",
     "get_tick_chart", "get_minute_chart", "get_daily_chart", "get_weekly_chart",
     "get_monthly_chart", "get_yearly_chart", "get_theme_group",
     "get_theme_components_endpoint", "get_sector_prices_endpoint",
     "get_all_sector_index_endpoint", "get_sector_daily_price_endpoint",
     "order_stock_buy", "order_stock_sell", "order_stock_modify", "order_stock_cancel",
     "get_condition_list", "request_condition_search", "request_realtime_condition",
     "cancel_realtime_condition"}
\* No test: the body is the upstream call, in a try block of the same kind.
NoGuard == {"get_stock_info"}
Routes == GuardBeforeTry \cup GuardInTry \cup NoGuard

\* What the call into KiwoomClient does: it returns a result, it returns a
\* dict with the key "error", or it raises.
Upstream == {"ok", "error", "raised"}

\* How a block of code ends: it returns, or it raises HTTPException(status),
\* or it raises another exception (status 0).
Returned(status) == [raised |-> FALSE, status |-> status]
Raised(status) == [raised |-> TRUE, status |-> status]

\* try: <block> except Exception as e: raise HTTPException(status_code=500):
\* HTTPException is a subclass of Exception, so whatever the block raises
\* leaves as a 500.
ExceptException(o) == IF o.raised THEN Raised(500) ELSE o

\* The status that the framework answers with: that of the HTTPException, 500
\* for an exception that no handler caught, 200 for a returned result.
Status(o) == IF o.raised /\ o.status = 0 THEN 500 ELSE o.status

\* The body of a handler, for the state of KiwoomClient.connected at the time
\* of the request and the behaviour up of the upstream call.
Handler(route, conn, up) ==
    IF route \in GuardBeforeTry
    THEN IF ~conn THEN Raised(503)
         ELSE IF up = "raised" THEN Raised(0)
         ELSE IF up = "error" THEN Raised(400)
         ELSE Returned(200)
    ELSE IF route \in GuardInTry
    THEN ExceptException(IF ~conn THEN Raised(503)
                         ELSE IF up = "raised" THEN Raised(0)
                         ELSE Returned(200))
    ELSE ExceptException(IF up = "raised" THEN Raised(0) ELSE Returned(200))

\* A request arrives on a route and is answered.
Request(route, up) ==
    /\ response' = Response(route, kiwoom_connected, up,
                            Status(Handler(route, kiwoom_connected, up)))
    /\ UNCHANGED <<relay, downstream, redis, redis_client, handler_redis, processed, clock,
                   kiwoom_connected, session, state_manager, market_websocket,
                   broadcast_task>>

\* KiwoomClient.connect() has opened the upstream websocket; disconnect(), or
\* the receive loop on ConnectionClosed, has marked it closed.
KiwoomConnects ==
    /\ ~kiwoom_connected
    /\ kiwoom_connected' = TRUE
    /\ UNCHANGED <<relay, downstream, redis, redis_client, handler_redis, processed, clock,
                   response, session, state_manager, market_websocket,
                   broadcast_task>>

KiwoomDisconnects ==
    /\ kiwoom_connected
    /\ kiwoom_connected' = FALSE
    /\ UNCHANGED <<relay, downstream, redis, redis_client, handler_redis, processed, clock,
                   response, session, state_manager, market_websocket,
                   broadcast_task>>

NextRest ==
    \/ KiwoomConnects
    \/ KiwoomDisconnects
    \/ \E route \in Routes, up \in Upstream : Request(route, up)

SpecRest == Init /\ [][NextRest]_vars

\* ------------------------------------- the downstream command loop
\* api/endpoints/server_sockets.py, market_websocket: one turn of the
\* `while True` loop for a received text.
Actions == {"get_status", "bogus", "none"}
Texts == {Text("invalid", ""), Text("other", "")} \cup {Text("object", a) : a \in Actions}

\* (mutant of HandleCommand: a command with an unknown action gets no reply)
HandleCommandSilent(text) ==
    IF text.json = "invalid" THEN <<Reply("error", "", "invalid_json")>>
    ELSE IF text.json = "other" THEN <<Reply("error", "", "exception")>>
    ELSE IF text.action = "get_status" THEN <<Reply("success", "get_status", "")>>
    ELSE <<>>

\* The inner try block: json.loads(data), the chain of tests on
\* command.get("action") and its final else, and the two except clauses.  A
\* value that is no object has no get(): AttributeError, taken by
\* `except Exception`.  The result is the sequence of replies sent.
HandleCommand(text) ==
    IF text.json = "invalid" THEN <<Reply("error", "", "invalid_json")>>
    ELSE IF text.json = "other" THEN <<Reply("error", "", "exception")>>
    ELSE IF text.action = "get_status" THEN <<Reply("success", "get_status", "")>>
    ELSE <<Reply("error", "", "unsupported")>>

\* receive_text() returns a text of a client whose channel is open; the text
\* is handled, the replies are sent and the loop goes on to the next
\* receive_text().  Nothing is unregistered and nothing is closed.
Command(w, text) ==
    /\ listener[w].st = "handler"
    /\ listener[w].channel = "open"
    /\ Len(session[w]) < MaxEvents
    /\ session' = [session EXCEPT ![w] = Append(@, [text |-> text, replies |-> HandleCommand(text)])]
    /\ UNCHANGED <<relay, downstream, redis, redis_client, handler_redis, processed, clock,
                   kiwoom_connected, response, state_manager, market_websocket,
                   broadcast_task>>

NextCommands ==
    \/ \E w \in CacheListeners : RegisterClient(w)
    \/ \E w \in CacheListeners : ChannelBreaks(w)
    \/ \E w \in CacheListeners : UnregisterClient(w)
    \/ \E w \in CacheListeners, text \in Texts : Command(w, text)

SpecCommands == Init /\ [][NextCommands]_vars

\* ------------------------------------ the registry calls, task by task
\* subscribe_realtime_price, unsubscribe_realtime_price and register_real_data
\* as coroutines: each runs up to its `await self.send_message(...)`, where
\* `await self.websocket.send(message)` hands the message to the socket and
\* may give the event loop to another task, and goes on after it.
Mirror0 == RegisterItems(EmptyDict, "1", <<"005930", "000660">>, <<"0D", "01">>, FALSE)

\* A call that has handed its message to the socket and waits to go on; ret is
\* what send_message will return to it.
Sending(api, m, ret, a) ==
    [pc |-> "sending", api |-> api, msg |-> m, ser |-> TRUE, ret |-> ret, args |-> a]
SendResult(T) == IF SendOK(T, TRUE) THEN "success" ELSE "error"

\* subscribe_realtime_price up to its send: the test of connected, the update
\* of the mirror before the send, the send.
SubscribeSends(o, g, items, types, refresh) ==
    /\ ~Starved
    /\ UNCHANGED <<downstream, services>>
    /\ FirstIdleOp(o)
    /\ LET a == Args(g, items, types, refresh)
           its == IF items = NoneArg THEN <<>> ELSE items
           ts == IF types = NoneArg THEN <<"0D">> ELSE types
           m == RegMsg(g, its, ts, refresh)
       IN IF ~connected
          THEN /\ op' = [op EXCEPT ![o] = RegistryOp("subscribe_realtime_price", NoMsg,
                                                     "notconnected", a)]
               /\ UNCHANGED <<connected, websocket, keep_running, reconnect_attempts,
                              sock, sentOn, loop, registered_items>>
          ELSE /\ Commit(SendConnected(Cur, m, TRUE))
               /\ registered_items' = BeforeSubscribe(registered_items, g, refresh)
               /\ op' = [op EXCEPT ![o] = Sending("subscribe_realtime_price", m,
                                                  SendResult(Cur), a)]
    /\ UNCHANGED <<realtime_handler, response_futures, registered_groups, inbox,
                   call, dispatched>>

\* subscribe_realtime_price after its send: the second update of the mirror,
\* whatever the send returned, then the result.
SubscribeResumes(o) ==
    /\ ~Starved
    /\ op[o].pc = "sending"
    /\ op[o].api = "subscribe_realtime_price"
    /\ registered_items' = RegisterItems(registered_items, op[o].args.group_no,
                                         op[o].msg.item, op[o].msg.type, op[o].args.refresh)
    /\ op' = [op EXCEPT ![o].pc = "done"]
    /\ UNCHANGED <<connected, websocket, keep_running, reconnect_attempts, sock, sentOn,
                   loop, realtime_handler, response_futures, registered_groups, inbox,
                   call, dispatched, downstream, services>>

\* unsubscribe_realtime_price up to its send: the tests, then the REMOVE
\* message for the group or for the items.
UnsubscribeSends(o, g, items, types) ==
    /\ ~Starved
    /\ UNCHANGED <<downstream, services>>
    /\ FirstIdleOp(o)
    /\ LET a == Args(g, items, types, FALSE)
           k == UnsubscribeCheck(registered_items, connected, g, items, types)
       IN IF k = "group"
          THEN /\ Commit(SendConnected(Cur, RemoveMsg(g, <<>>, <<>>), TRUE))
               /\ op' = [op EXCEPT ![o] = Sending("unsubscribe_realtime_price",
                                                  RemoveMsg(g, <<>>, <<>>), SendResult(Cur), a)]
          ELSE IF k = "items"
          THEN \E ts \in IF types = NoneArg
                         THEN ListsOf(KindsOf(registered_items[g], items))
                         ELSE {types} :
                  /\ Commit(SendConnected(Cur, RemoveMsg(g, items, ts), TRUE))
                  /\ op' = [op EXCEPT ![o] = Sending("unsubscribe_realtime_price",
                                                     RemoveMsg(g, items, ts), SendResult(Cur), a)]
          ELSE /\ op' = [op EXCEPT ![o] = RegistryOp("unsubscribe_realtime_price", NoMsg, k, a)]
               /\ UNCHANGED <<connected, websocket, keep_running, reconnect_attempts,
                              sock, sentOn, loop>>
    /\ UNCHANGED <<realtime_handler, response_futures, registered_items, registered_groups,
                   inbox, call, dispatched>>

\* unsubscribe_realtime_price after a send that succeeded: the group is
\* deleted, or the types are removed from the items.  Both read
\* self.registered_items[group_no]: when the group is no longer there the
\* KeyError is caught by the `except Exception` of the function, which
\* returns an error.
UnsubscribeResumes(o) ==
    /\ ~Starved
    /\ op[o].pc = "sending"
    /\ op[o].api = "unsubscribe_realtime_price"
    /\ LET g == op[o].args.group_no IN
       IF op[o].ret # "success"
       THEN /\ op' = [op EXCEPT ![o].pc = "done"]
            /\ UNCHANGED registered_items
       ELSE IF ~Has(registered_items, g)
       THEN /\ op' = [op EXCEPT ![o].pc = "done", ![o].ret = "raised"]
            /\ UNCHANGED registered_items
       ELSE /\ op' = [op EXCEPT ![o].pc = "done"]
            /\ registered_items' =
                  IF op[o].args.items = NoneArg /\ op[o].args.data_types = NoneArg
                  THEN Del(registered_items, g)
                  ELSE UnsubscribeItems(registered_items, g, op[o].msg.item, op[o].msg.type)
    /\ UNCHANGED <<connected, websocket, keep_running, reconnect_attempts, sock, sentOn,
                   loop, realtime_handler, response_futures, registered_groups, inbox,
                   call, dispatched, downstream, services>>

\* register_real_data up to its send, on a connected client: the update of
\* the mirror, the REG message.
RegisterSends(o, g, items, types, refresh) ==
    /\ ~Starved
    /\ UNCHANGED <<downstream, services>>
    /\ FirstIdleOp(o)
    /\ connected
    /\ registered_items' = RegisterItems(registered_items, g, items, types, refresh)
    /\ Commit(SendConnected(Cur, RegMsg(g, items, types, refresh), TRUE))
    /\ op' = [op EXCEPT ![o] = Sending("register_real_data", RegMsg(g, items, types, refresh),
                                       IF SendOK(Cur, TRUE) THEN "true" ELSE "false",
                                       Args(g, items, types, refresh))]
    /\ UNCHANGED <<realtime_handler, response_futures, registered_groups, inbox,
                   call, dispatched>>

\* register_real_data after its send: the log line reads
\* self.registered_items[group_no], and nothing catches its KeyError.
RegisterResumes(o) ==
    /\ ~Starved
    /\ op[o].pc = "sending"
    /\ op[o].api = "register_real_data"
    /\ op' = [op EXCEPT ![o].pc = "done",
                        ![o].ret = IF Has(registered_items, op[o].args.group_no)
                                   THEN @ ELSE "raised"]
    /\ UNCHANGED <<connected, websocket, keep_running, reconnect_attempts, sock, sentOn,
                   loop, realtime_handler, response_futures, registered_items,
                   registered_groups, inbox, call, dispatched, downstream, services>>

NextInterleaved ==
    \/ \E o \in Ops, g \in RGroups, i \in RItemLists, k \in RTypeLists, r \in BOOLEAN :
          SubscribeSends(o, g, i, k, r)
    \/ \E o \in Ops : SubscribeResumes(o)
    \/ \E o \in Ops, g \in RGroups : UnsubscribeSends(o, g, NoneArg, NoneArg)
    \/ \E o \in Ops, g \in RGroups, i \in RItemLists, k \in RTypeLists :
          UnsubscribeSends(o, g, i, k)
    \/ \E o \in Ops : UnsubscribeResumes(o)
    \/ \E o \in Ops, g \in RGroups, i \in RItemLists, k \in RTypeLists, r \in BOOLEAN :
          RegisterSends(o, g, i, k, r)
    \/ \E o \in Ops : RegisterResumes(o)

\* A connected client whose mirror holds two items with two kinds each.
InitInterleaved == InitRegistry /\ registered_items = Mirror0

SpecInterleaved == InitInterleaved /\ [][NextInterleaved]_vars

\* -------------------------------------------------- the scheduler is fair
\* The event loop runs every task that is ready: a call whose Future is done
\* or cancelled resumes, the timer of wait_for goes off, an awaited connect()
\* returns or raises, and a receive task that is ready runs.
Fairness ==
    /\ WF_vars(\E c \in Calls : CallReturn(c))
    /\ WF_vars(\E c \in Calls : TimeoutFire(c))
    /\ WF_vars(\E c \in Calls, ok \in BOOLEAN : CallConnected(c, ok))
    /\ WF_vars(\E l \in Loops : LoopStart(l))
    /\ WF_vars(\E l \in Loops : Handle(l))

SpecLive == Init /\ [][Next]_vars /\ Fairness

\* --------------------- the commands of /ws/realdata and the state manager
\* services/realtime_services.py, RealtimeStateManager.add_subscription: the
\* group is replaced when refresh is False or the group is new, and both sets
\* are extended otherwise.
AddSubscription(subs, g, items, types, refresh) ==
    IF ~refresh \/ ~Has(subs, g)
    THEN Put(subs, g, [items |-> Range(items), data_types |-> Range(types)])
    ELSE Put(subs, g, [items |-> subs[g].items \cup Range(items),
                       data_types |-> subs[g].data_types \cup Range(types)])

\* RealtimeStateManager.remove_subscription: the whole group when both
\* arguments are None; otherwise each argument that is given and not empty is
\* taken out of its set, and the group is deleted when a set is left empty.
RemoveSubscription(subs, g, items, types) ==
    IF ~Has(subs, g) THEN subs
    ELSE IF items = NoneArg /\ types = NoneArg THEN Del(subs, g)
    ELSE LET its == IF items = NoneArg \/ items = <<>> THEN subs[g].items
                    ELSE subs[g].items \ Range(items)
             ts == IF types = NoneArg \/ types = <<>> THEN subs[g].data_types
                   ELSE subs[g].data_types \ Range(types)
         IN IF its = {} \/ ts = {} THEN Del(subs, g)
            ELSE Put(subs, g, [items |-> its, data_types |-> ts])

\* RealtimeStateManager.get_all_subscriptions, as far as the instruments go:
\* list(data["items"]) has the elements of the set in some order, and is kept
\* here as the set.
GetAllSubscriptions(subs) == [g \in DOMAIN subs |-> subs[g].items]

\* add_condition_subscription and remove_condition_subscription
AddConditionSubscription(conds, seq) == conds \cup {seq}
RemoveConditionSubscription(conds, seq) == conds \ {seq}

\* f"cond_{seq}"
CondGroup(seq) == "cond_" \o seq

\* if group not in client_groups: client_groups.append(group)
AppendGroup(groups, g) == IF InList(groups, g) THEN groups ELSE Append(groups, g)
\* if group in client_groups: client_groups.remove(group)
RemoveGroup(groups, g) == IF InList(groups, g) THEN Remove(groups, g) ELSE groups

\* One turn of the command loop: the command, what the call of SocketClient
\* gave back ("none" when none was made) and the reply sent downstream.
Turn(command, upstream, reply) == [command |-> command, upstream |-> upstream, reply |-> reply]

\* The endpoint sends its reply and goes back to receive_text().
Replies(command, upstream, reply) ==
    market_websocket' = [market_websocket EXCEPT !.replies = Append(@, Turn(command, upstream, reply))]
RepliesIn(command, upstream, reply, groups) ==
    market_websocket' = [client_groups |-> groups,
                         replies |-> Append(market_websocket.replies,
                                            Turn(command, upstream, reply))]

\* The endpoint is at receive_text() and a command arrives.
Receives == Len(market_websocket.replies) < MaxEvents

\* What the handlers of this section leave alone.
EndpointFrame ==
    UNCHANGED <<realtime_handler, response_futures, inbox, call, op, dispatched,
                downstream, redis, redis_client, handler_redis, processed, clock,
                kiwoom_connected, response, session, broadcast_task>>

\* {"action": "register", ...}: register_real_data is awaited; its mirror
\* update comes before the send, and its send_message awaits connect() first
\* when the client is not connected (ok: what that connect() comes to; the
\* exception of a failed connect() reaches the `except Exception` of the
\* loop).  Only a true result updates client_groups and the state manager.
CommandRegister(g, items, types, refresh, ok) ==
    /\ Receives
    /\ EndpointFrame
    /\ UNCHANGED registered_groups
    /\ IF items = <<>>
       THEN /\ Replies("register", "none", Reply("error", "", "invalid_parameters"))
            /\ UNCHANGED <<connected, websocket, keep_running, reconnect_attempts,
                           sock, sentOn, loop, registered_items, state_manager>>
       ELSE /\ registered_items' = RegisterItems(registered_items, g, items, types, refresh)
            /\ LET m == RegMsg(g, items, types, refresh)
                   T1 == IF connected THEN Cur ELSE ConnectOK(Cur)
                   raised == ~connected /\ ~ok
                   result == ~raised /\ SendOK(T1, TRUE)
               IN /\ ~connected => ok \in Outcomes
                  /\ connected => ok
                  /\ Commit(IF raised THEN ConnectFail(Cur) ELSE SendConnected(T1, m, TRUE))
                  /\ state_manager' =
                       IF result
                       THEN [state_manager EXCEPT !.subscriptions =
                                AddSubscription(@, g, items, types, refresh)]
                       ELSE state_manager
                  /\ IF raised
                     THEN Replies("register", "raised", Reply("error", "", "exception"))
                     ELSE IF result
                     THEN RepliesIn("register", "true", Reply("success", "register", ""),
                                    AppendGroup(market_websocket.client_groups, g))
                     ELSE Replies("register", "false", Reply("error", "", "register_failed"))

\* {"action": "subscribe_price", ...}: data_types defaults to ["0D"] and
\* refresh to True in the endpoint.  subscribe_realtime_price returns an error
\* when not connected or when its send failed; the mirror of SocketClient is
\* updated around the send whatever the send gives.
CommandSubscribePrice(g, items, types, refresh) ==
    /\ Receives
    /\ EndpointFrame
    /\ UNCHANGED registered_groups
    /\ IF items = <<>>
       THEN /\ Replies("subscribe_price", "none", Reply("error", "", "items_required"))
            /\ UNCHANGED <<connected, websocket, keep_running, reconnect_attempts,
                           sock, sentOn, loop, registered_items, state_manager>>
       ELSE IF ~connected
       THEN /\ Replies("subscribe_price", "error", Reply("error", "", "notconnected"))
            /\ UNCHANGED <<connected, websocket, keep_running, reconnect_attempts,
                           sock, sentOn, loop, registered_items, state_manager>>
       ELSE /\ Commit(SendConnected(Cur, RegMsg(g, items, types, refresh), TRUE))
            /\ registered_items' = SubscribeItems(registered_items, g, items, types, refresh)
            /\ IF SendOK(Cur, TRUE)
               THEN /\ state_manager' = [state_manager EXCEPT !.subscriptions =
                                            AddSubscription(@, g, items, types, refresh)]
                    /\ RepliesIn("subscribe_price", "success",
                                 Reply("success", "subscribe_price", ""),
                                 AppendGroup(market_websocket.client_groups, g))
               ELSE /\ UNCHANGED state_manager
                    /\ Replies("subscribe_price", "error", Reply("error", "", "send_failed"))

\* {"action": "unsubscribe_price", ...}: items and data_types are None when
\* the command does not give them.  After a result without "error" the group
\* leaves client_groups when items is None, and remove_subscription gets the
\* arguments of the command.
CommandUnsubscribePrice(g, items, types) ==
    /\ Receives
    /\ EndpointFrame
    /\ UNCHANGED registered_groups
    /\ LET k == UnsubscribeCheck(registered_items, connected, g, items, types)
           done(reg) ==
               /\ registered_items' = reg
               /\ state_manager' = [state_manager EXCEPT !.subscriptions =
                                       RemoveSubscription(@, g, items, types)]
               /\ RepliesIn("unsubscribe_price", "success",
                            Reply("success", "unsubscribe_price", ""),
                            IF items = NoneArg
                            THEN RemoveGroup(market_websocket.client_groups, g)
                            ELSE market_websocket.client_groups)
           failed ==
               /\ UNCHANGED <<registered_items, state_manager>>
               /\ Replies("unsubscribe_price", "error", Reply("error", "", "send_failed"))
       IN IF k = "group"
          THEN /\ Commit(SendConnected(Cur, RemoveMsg(g, <<>>, <<>>), TRUE))
               /\ IF SendOK(Cur, TRUE) THEN done(Del(registered_items, g)) ELSE failed
          ELSE IF k = "items"
          THEN \E ts \in IF types = NoneArg
                         THEN ListsOf(KindsOf(registered_items[g], items))
                         ELSE {types} :
                  /\ Commit(SendConnected(Cur, RemoveMsg(g, items, ts), TRUE))
                  /\ IF SendOK(Cur, TRUE)
                     THEN done(UnsubscribeItems(registered_items, g, items, ts))
                     ELSE failed
          ELSE /\ Replies("unsubscribe_price", "error", Reply("error", "", k))
               /\ UNCHANGED <<connected, websocket, keep_running, reconnect_attempts,
                              sock, sentOn, loop, registered_items, state_manager>>

\* What request_realtime_condition and cancel_realtime_condition can give
\* back: the reply of the venue, or a dict with an "error" key (not connected,
\* send failure, timeout, any exception: both methods catch Exception).
\* Neither raises.
ConditionResults == {"reply", "error"}

\* cancel_realtime_condition after a reply: cond_<seq> leaves registered_groups.
RemoveConditionGroup(groups, seq) == IF InList(groups, seq) THEN Remove(groups, seq) ELSE groups

\* The call of SocketClient that a condition command awaits, from its start
\* to its return, with the result it comes to: an error at once when not
\* connected; an error when the send fails; otherwise the request is sent and
\* either the reply comes (up = "reply") or the wait times out.
ConditionCall(tag, seq, up, groups) ==
    IF ~connected
    THEN /\ up = "error"
         /\ UNCHANGED <<connected, websocket, keep_running, reconnect_attempts,
                        sock, sentOn, loop, registered_groups>>
    ELSE /\ Commit(SendConnected(Cur, ReqMsg(tag, 0, seq), TRUE))
         /\ ~SendOK(Cur, TRUE) => up = "error"
         /\ registered_groups' = IF up = "reply" THEN groups ELSE registered_groups

\* {"action": "condition_realtime", "seq": seq}: the result of
\* request_realtime_condition is not looked at; only an exception would skip
\* the updates.
CommandConditionRealtime(seq, up) ==
    /\ Receives
    /\ EndpointFrame
    /\ UNCHANGED registered_items
    /\ up \in ConditionResults
    /\ IF seq = ""
       THEN /\ up = "error"
            /\ Replies("condition_realtime", "none", Reply("error", "", "seq_required"))
            /\ UNCHANGED <<connected, websocket, keep_running, reconnect_attempts,
                           sock, sentOn, loop, registered_groups, state_manager>>
       ELSE /\ ConditionCall("CNSRREQ", seq, up, AddConditionGroup(registered_groups, seq))
            /\ state_manager' = [state_manager EXCEPT !.condition_subscriptions =
                                    AddConditionSubscription(@, seq)]
            /\ RepliesIn("condition_realtime", up, Reply("success", "condition_realtime", ""),
                         AppendGroup(market_websocket.client_groups, CondGroup(seq)))

\* {"action": "condition_cancel", "seq": seq}: the same shape.
CommandConditionCancel(seq, up) ==
    /\ Receives
    /\ EndpointFrame
    /\ UNCHANGED registered_items
    /\ up \in ConditionResults
    /\ IF seq = ""
       THEN /\ up = "error"
            /\ Replies("condition_cancel", "none", Reply("error", "", "seq_required"))
            /\ UNCHANGED <<connected, websocket, keep_running, reconnect_attempts,
                           sock, sentOn, loop, registered_groups, state_manager>>
       ELSE /\ ConditionCall("CNSRCNC", seq, up, RemoveConditionGroup(registered_groups, seq))
            /\ state_manager' = [state_manager EXCEPT !.condition_subscriptions =
                                    RemoveConditionSubscription(@, seq)]
            /\ RepliesIn("condition_cancel", up, Reply("success", "condition_cancel", ""),
                         RemoveGroup(market_websocket.client_groups, CondGroup(seq)))

NextEndpoint ==
    \/ \E g \in RGroups, i \in RItemLists \cup {<<>>}, k \in RTypeLists, r \in BOOLEAN,
          ok \in BOOLEAN : CommandRegister(g, i, k, r, ok)
    \/ \E g \in RGroups, i \in RItemLists \cup {<<>>}, k \in RTypeLists, r \in BOOLEAN :
          CommandSubscribePrice(g, i, k, r)
    \/ \E g \in RGroups, i \in RItemLists \cup {NoneArg}, k \in RTypeLists \cup {NoneArg} :
          CommandUnsubscribePrice(g, i, k)
    \/ \E q \in Seqs \cup {""}, up \in ConditionResults : CommandConditionRealtime(q, up)
    \/ \E q \in Seqs \cup {""}, up \in ConditionResults : CommandConditionCancel(q, up)
    \/ \E s \in Socks : VenueClose(s)

\* A connected client, nothing registered, the state manager as constructed
\* and one client of /ws/realdata at its first receive_text().
InitEndpoint == InitRegistry /\ registered_items = EmptyDict

SpecEndpoint == InitEndpoint /\ [][NextEndpoint]_vars

\* ------------------------------- broadcast_to_clients, send by send
\* RealtimeHandler.broadcast_to_clients as a task of its own
\* (process_real_time_data creates it with asyncio.create_task): its for loop
\* walks self.websocket_clients itself, not a copy, and awaits send_text once
\* per element, so between two sends other tasks run: an endpoint that
\* unregisters its client, or another broadcast.  The list iterator keeps a
\* position i and takes the element at that position of the list as it is
\* when the loop comes round.

\* The task is created while there are clients; `if not
\* self.websocket_clients: return` is passed.
BroadcastStarts(b) ==
    /\ broadcast_task[b].pc = "none"
    /\ websocket_clients # <<>>
    /\ broadcast_task' = [broadcast_task EXCEPT ![b] =
          [NoTask EXCEPT !.pc = "loop", !.start = Range(websocket_clients)]]
    /\ UNCHANGED <<relay, downstream, redis, redis_client, handler_redis, processed, clock,
                   kiwoom_connected, response, session, state_manager, market_websocket>>

\* next() of the list iterator: the element at position i (counted from 0) of
\* the list as it is now, or the end of the loop.
HasNext(clients, i) == i < Len(clients)
NextClient(clients, i) == clients[i + 1]

\* One round of the for loop, up to the await of send_text: the send reaches
\* the client, or raises and the client is put on disconnected.
SendText(t, w, chan) ==
    IF chan[w].channel = "open"
    THEN [t EXCEPT !.i = @ + 1, !.got = Append(@, w)]
    ELSE [t EXCEPT !.i = @ + 1, !.disconnected = Append(@, w)]

\* The task goes on: the next round of the loop, or, when the iterator is at
\* the end of the list, the cleanup loop (unregister_client has no await in
\* it) and the return.
BroadcastGoesOn(b) ==
    /\ broadcast_task[b].pc = "loop"
    /\ LET t == broadcast_task[b] IN
       IF HasNext(websocket_clients, t.i)
       THEN /\ broadcast_task' = [broadcast_task EXCEPT ![b] =
                   SendText(t, NextClient(websocket_clients, t.i), listener)]
            /\ UNCHANGED websocket_clients
       ELSE /\ broadcast_task' = [broadcast_task EXCEPT ![b].pc = "done"]
            /\ websocket_clients' = UnregisterAll(websocket_clients, t.disconnected)
    /\ UNCHANGED <<relay, active_connections, client_groups, listener, delivered,
                   redis, redis_client, handler_redis, processed, clock,
                   kiwoom_connected, response, session, state_manager, market_websocket>>

NextBroadcast ==
    \/ \E w \in Listeners : RegisterClient(w)
    \/ \E w \in Listeners : UnregisterClient(w)
    \/ \E w \in Listeners : ChannelBreaks(w)
    \/ \E b \in Tasks : BroadcastStarts(b)
    \/ \E b \in Tasks : BroadcastGoesOn(b)

SpecBroadcast == Init /\ [][NextBroadcast]_vars

\* ===================================================================== claims
\* Steps of the model, recognised from the two states of a step.

\* Call b stores its Future under its tag in this step.
Registers(b) == call[b].pc \in {"idle", "conn"} /\ call'[b].pc \in {"wait", "done"}
                /\ call'[b].ret \notin {"raised", "notconnected"}
\* Call a waits and the table holds its Future under its tag.
Pending(a) == /\ call[a].pc = "wait" /\ call[a].fut = "pending"
              /\ Has(response_futures, call[a].tag)
              /\ response_futures[call[a].tag] = a
\* Receive task l runs one iteration on the frame it holds.
Handles(l) == loop[l].pc = "got" /\ loop'[l].pc # "got"
\* Call c resumes from a wait_for that timed out.
TimesOut(c) == call[c].pc = "wait" /\ call[c].fut = "cancelled" /\ call'[c].pc = "done"

\* C1: a second call with the tag of a call that is still pending fails at once
\* with a duplicate-tag error and leaves the first call's Future in the table;
\* the first call's reply, when it arrives, completes the first call.
C1_DuplicateTagRejected ==
    [][\A a \in Calls :
         /\ \A b \in Calls \ {a} :
              (Pending(a) /\ Registers(b) /\ call'[b].tag = call[a].tag)
              => /\ Has(response_futures', call[a].tag)
                 /\ response_futures'[call[a].tag] = a
                 /\ call'[b].pc = "done"
                 /\ call'[b].ret = "duplicate"
         /\ \A l \in Loops :
              (/\ Handles(l)
               /\ call[a].pc = "wait" /\ call[a].fut = "pending"
               /\ loop[l].frame = Frame(call[a].tag, 0, a))
              => call'[a].fut = "done" /\ call'[a].res = loop[l].frame]_vars

\* The (group, item, kind) entries of the mirror, those that a set of sent
\* messages registers, and the condition seqs it requests.
Entries(reg) ==
    UNION {UNION {{<<g, i, reg[g][i][n]>> : n \in 1..Len(reg[g][i])} : i \in DOMAIN reg[g]}
           : g \in DOMAIN reg}
RegSent(ms) ==
    UNION {{<<m.grp_no, m.item[a], m.type[b]>> : a \in 1..Len(m.item), b \in 1..Len(m.type)}
           : m \in {x \in ms : x.trnm = "REG"}}
CondSent(ms) == {m.seq : m \in {x \in ms : x.trnm = "CNSRREQ" /\ x.seq # ""}}
Conds(groups) == {groups[n] : n \in 1..Len(groups)}

\* Receive task l comes back from try_reconnect with a new socket.
Reconnects(l) == loop[l].pc = "reconnect" /\ loop'[l].pc # "reconnect"
                 /\ connected' /\ websocket' # websocket

\* C2: when try_reconnect has reconnected, what the transport has sent on the
\* new socket is LOGIN, the registrations of exactly the entries of
\* registered_items, and a realtime-condition request for exactly each
\* subscribed condition.
C2_ReplayOnReconnect ==
    [][\A l \in Loops :
         Reconnects(l)
         => /\ LoginMsg \in sentOn'
            /\ RegSent(sentOn') = Entries(registered_items')
            /\ CondSent(sentOn') = Conds(registered_groups')]_vars

\* A frame that the loop neither echoes, nor matches to a pending entry, nor
\* takes as the login reply.
Unmatched(f) == f.trnm \notin {"PING", "LOGIN"} /\ ~Has(response_futures, f.trnm)

C4_SecondFramePushed ==
    [][\A l \in Loops :
         (/\ Handles(l)
          /\ realtime_handler
          /\ Has(response_futures, loop[l].frame.trnm)
          /\ call[response_futures[loop[l].frame.trnm]].fut = "done")
         => /\ dispatched' = {loop[l].frame}
            /\ call' = call]_vars

\* C5: the frame that completes a call is not the reply to another call that
\* has already returned.
C5_NoStaleCompletion ==
    [][\A c \in Calls :
         (call[c].fut = "pending" /\ call'[c].fut = "done")
         => LET d == call'[c].res.req IN
            ~(d \in Calls /\ d # c /\ call[d].pc = "done")]_vars

\* C6: the iteration that handles a PING frame writes the frame's own content
\* back to the socket (when the transport is not connected: once the connect
\* that send_message awaits has succeeded, and the task reads no frame in
\* between), and it changes neither response_futures nor any call.
C6_PingEchoed ==
    [][\A l \in Loops :
         LET f == loop[l].frame
             echo == [trnm |-> "PING", ref |-> f.req, seq |-> "", grp_no |-> "",
                      item |-> <<>>, type |-> <<>>, refresh |-> ""]
         IN /\ (Handles(l) /\ f.trnm = "PING")
               => /\ response_futures' = response_futures
                  /\ call' = call
                  /\ (connected /\ sock[websocket] = "open")
                        => sentOn' = sentOn \cup {echo}
                  /\ ~connected
                        => loop'[l].pc = "conn_echo" /\ loop'[l].frame = f
            /\ (loop[l].pc = "conn_echo" /\ loop'[l].pc # "conn_echo")
               => /\ f.trnm = "PING"
                  /\ response_futures' = response_futures
                  /\ call' = call
                  /\ connected' => echo \in sentOn']_vars

\* A heartbeat has been echoed while a call was waiting for its reply.
C6_Witness ==
    /\ \E m \in sentOn : m.trnm = "PING"
    /\ \E c \in Calls : call[c].pc = "wait" /\ call[c].fut = "pending"

\* C7: send_message never raises.
C7_SendMessageNeverRaises ==
    \A o \in Ops : op[o].api \in {"register_real_data", "send_message"}
                   => op[o].ret # "raised"

\* C8: a call whose wait times out leaves no entry under its tag, returns the
\* timeout error, and has sent its request once.
C8_TimeoutRemovesEntry ==
    [][\A c \in Calls :
         TimesOut(c)
         => /\ ~Has(response_futures', call[c].tag)
            /\ call'[c].ret = "timeout"
            /\ call'[c].sends = 1
            /\ sentOn' = sentOn]_vars

\* A call has returned the timeout error.
C8_Witness == \E c \in Calls : call[c].ret = "timeout" /\ ~Has(response_futures, call[c].tag)

\* C9: a call that times out removes no entry that holds another call's
\* Future, and leaves connected as it is.
C9_TimeoutKeepsOthers ==
    [][\A c \in Calls :
         TimesOut(c)
         => /\ connected' = connected
            /\ \A t \in DOMAIN response_futures :
                 response_futures[t] # c
                 => Has(response_futures', t) /\ response_futures'[t] = response_futures[t]]_vars

\* C10: a receive task whose try_reconnect has given up at max_retries has
\* left its loop: none goes round the loop for ever.
C10_LoopStopsAfterMaxRetries ==
    \A l \in Loops : loop[l].pc # "spin"

\* Receive task l handles a LOGIN reply whose return_code is not 0.
LoginFails(l) == Handles(l) /\ loop[l].frame.trnm = "LOGIN" /\ loop[l].frame.return_code # 0

\* C11: when the receive loop handles a LOGIN reply with a non-zero
\* return_code it calls disconnect(): keep_running and connected are cleared,
\* the socket that self.websocket names is closed and self.websocket becomes
\* None; the reply completes no Future of any send_and_wait_for_response call
\* and is not handed to the push dispatcher.
C11_LoginFailureDisconnects ==
    [][\A l \in Loops :
          LoginFails(l) =>
             /\ ~keep_running' /\ ~connected' /\ websocket' = None
             /\ (websocket # None => sock'[websocket] = "closed")
             /\ call' = call
             /\ response_futures' = response_futures
             /\ dispatched' = {}]_vars

\* A login failure was handled while a caller was waiting for a reply.
C11_Witness ==
    /\ ~keep_running /\ ~connected /\ websocket = None
    /\ \E s \in Socks : sock[s] = "closed"
    /\ \E c \in Calls : call[c].pc = "wait" /\ call[c].fut = "pending"

\* C12: after a login failure has forced disconnect() (keep_running is
\* cleared), a connect() that succeeds leaves a receive task that processes
\* frames again: the task it creates, run while the connection is up, goes on
\* to wait for the next frame.
C12_ReconnectAfterLoginFailure ==
    [][\A l \in Loops :
          (/\ ~keep_running /\ connected /\ websocket # None
           /\ loop[l].pc = "top" /\ loop'[l].pc # "top")
          => loop'[l].pc = "recv"]_vars

\* ------------------------------------------------------- the registry claims
\* Caller o starts a call of the method api in this step.
Starts(o, api) == op[o].pc = "idle" /\ op'[o].pc # "idle" /\ op'[o].api = api
\* The (item, kind) pairs of a group's map.
Pairs(m) == UNION {{<<i, m[i][n]>> : n \in 1..Len(m[i])} : i \in DOMAIN m}
Product(items, types) == {<<items[a], types[b]>> : a \in 1..Len(items), b \in 1..Len(types)}
OneEntry == Put(EmptyDict, "1", Put(EmptyDict, "005930", <<"0D">>))

\* C13: from an empty registry and a connected transport,
\* subscribe_realtime_price("1", ["005930"], ["0D"], refresh=True) leaves
\* exactly that entry; a following subscribe_realtime_price("1", ["000660"],
\* refresh=False) leaves both 005930 and 000660 registered under group "1".
C13_SubscribeScenario ==
    [][\A o \in Ops :
          (Starts(o, "subscribe_realtime_price") /\ connected
             /\ op'[o].args.group_no = "1") =>
          LET a == op'[o].args IN
          /\ (/\ DOMAIN registered_items = {} /\ a.items = <<"005930">>
              /\ a.data_types = <<"0D">> /\ a.refresh)
             => registered_items' = OneEntry
          /\ (registered_items = OneEntry /\ a.items = <<"000660">> /\ ~a.refresh)
             => /\ Has(registered_items', "1")
                /\ {"005930", "000660"} \subseteq DOMAIN registered_items'["1"]]_vars

\* C14: unsubscribe_realtime_price(group, items, data_types=None), called
\* while connected on instruments that are all registered in the group,
\* removes every kind of each listed instrument and nothing of any other
\* instrument; the group stays while another instrument is registered in it
\* and is removed when the listed ones were its last.
C14_UnsubscribeRemovesListed ==
    [][\A o \in Ops :
          (/\ Starts(o, "unsubscribe_realtime_price") /\ connected
           /\ op'[o].args.data_types = NoneArg /\ op'[o].args.items # NoneArg
           /\ Has(registered_items, op'[o].args.group_no)
           /\ \A n \in 1..Len(op'[o].args.items) :
                 Has(registered_items[op'[o].args.group_no], op'[o].args.items[n])) =>
          LET g == op'[o].args.group_no
              listed == {op'[o].args.items[n] : n \in 1..Len(op'[o].args.items)}
              rest == DOMAIN registered_items[g] \ listed
          IN IF rest = {} THEN ~Has(registered_items', g)
             ELSE /\ Has(registered_items', g)
                  /\ DOMAIN registered_items'[g] = rest
                  /\ \A i \in rest : registered_items'[g][i] = registered_items[g][i]]_vars

\* (the same, for the calls whose REMOVE message was sent)
UnsubscribeSentRemovesListed ==
    [][\A o \in Ops :
          (/\ Starts(o, "unsubscribe_realtime_price") /\ op'[o].ret = "success"
           /\ op'[o].args.data_types = NoneArg /\ op'[o].args.items # NoneArg) =>
          LET g == op'[o].args.group_no
              listed == {op'[o].args.items[n] : n \in 1..Len(op'[o].args.items)}
              rest == DOMAIN registered_items[g] \ listed
          IN IF rest = {} THEN ~Has(registered_items', g)
             ELSE /\ Has(registered_items', g)
                  /\ DOMAIN registered_items'[g] = rest
                  /\ \A i \in rest : registered_items'[g][i] = registered_items[g][i]]_vars

\* C15: register_real_data(group, items, kinds, refresh): with refresh=False
\* the group's map afterwards is the union of its prior map and items x kinds,
\* so a call whose pairs are all present changes nothing, and no kind is
\* stored twice; with refresh=True the map afterwards is exactly items x kinds.
\* No other group is touched.
C15_RegisterMergesOrReplaces ==
    [][\A o \in Ops :
          Starts(o, "register_real_data") =>
          LET m == op'[o].msg
              g == m.grp_no
              new == Product(m.item, m.type)
              prior == IF Has(registered_items, g) THEN Pairs(registered_items[g]) ELSE {}
          IN /\ Has(registered_items', g)
             /\ Pairs(registered_items'[g]) = IF m.refresh = "1" THEN new ELSE prior \cup new
             /\ \A i \in DOMAIN registered_items'[g] :
                   \A a, b \in 1..Len(registered_items'[g][i]) :
                      registered_items'[g][i][a] = registered_items'[g][i][b] => a = b
             /\ (m.refresh = "0" /\ new \subseteq prior) => registered_items' = registered_items
             /\ \A h \in DOMAIN registered_items \ {g} :
                   Has(registered_items', h) /\ registered_items'[h] = registered_items[h]]_vars

\* A merging call has run on a map that already held other pairs, and the map
\* now holds pairs of both.
C15_Witness ==
    \E o \in Ops :
       /\ op[o].api = "register_real_data" /\ op[o].msg.refresh = "0"
       /\ Has(registered_items, "1")
       /\ Product(op[o].msg.item, op[o].msg.type) \subseteq Pairs(registered_items["1"])
       /\ Pairs(registered_items["1"]) # Product(op[o].msg.item, op[o].msg.type)

\* C16: after any sequence of register_real_data, remove_items_from_group,
\* unregister_group, subscribe_realtime_price and unsubscribe_realtime_price
\* calls, registered_items holds no group with an empty instrument map and no
\* instrument with an empty kind list.
C16_NoEmptyEntries ==
    \A g \in DOMAIN registered_items :
       /\ DOMAIN registered_items[g] # {}
       /\ \A i \in DOMAIN registered_items[g] : registered_items[g][i] # <<>>

\* The mirror that a call of a registry operation is meant to leave, whatever
\* becomes of its message.
Intended(reg, o) ==
    LET m == o.msg
        g == m.grp_no
    IN IF o.api = "register_real_data"
       THEN RegisterItems(reg, g, m.item, m.type, m.refresh = "1")
       ELSE IF o.api = "remove_items_from_group" THEN RemoveFromGroup(reg, g, m.item, m.type)
       ELSE IF o.api = "unregister_group" THEN DropGroup(reg, g)
       ELSE IF o.api = "subscribe_realtime_price"
       THEN SubscribeItems(reg, g, m.item, m.type, m.refresh = "1")
       ELSE IF o.args.items = NoneArg THEN Del(reg, g)
       ELSE UnsubscribeItems(reg, g, m.item, m.type)

RegistryApis == {"register_real_data", "remove_items_from_group", "unregister_group",
                 "subscribe_realtime_price", "unsubscribe_realtime_price"}

\* C17: every registry operation applies its change to registered_items even
\* when send_message returns False for its REG, REMOVE or UNREG message.
C17_UpdatedWhenSendFails ==
    [][\A o \in Ops :
          (/\ op[o].pc = "idle" /\ op'[o].pc = "done"
           /\ op'[o].api \in RegistryApis
           /\ op'[o].msg # NoMsg
           /\ op'[o].ret \in {"false", "error"}) =>
          registered_items' = Intended(registered_items, op'[o])]_vars

\* (the same without unsubscribe_realtime_price)
UpdatedWhenSendFailsButUnsubscribe ==
    [][\A o \in Ops :
          (/\ op[o].pc = "idle" /\ op'[o].pc = "done"
           /\ op'[o].api \in RegistryApis \ {"unsubscribe_realtime_price"}
           /\ op'[o].msg # NoMsg
           /\ op'[o].ret \in {"false", "error"}) =>
          registered_items' = Intended(registered_items, op'[o])]_vars

\* ------------------------------------------------------- the listener claims
\* A broadcast runs in this step.
Broadcasts == delivered'.tick # delivered.tick
\* The websockets in the listener registry, and those whose connection_info
\* lists group g.
Connected == {active_connections[n].websocket : n \in 1..Len(active_connections)}
Joined(g) == {active_connections[n].websocket :
                 n \in {k \in 1..Len(active_connections) : InList(active_connections[k].groups, g)}}
\* The websockets a broadcast of the given kind sends to.
Targets(kind, g) ==
    IF kind = "broadcast" THEN Connected
    ELSE IF kind = "group" THEN (IF Has(client_groups, g) THEN Range(client_groups[g]) ELSE {})
    ELSE Range(websocket_clients)

\* C18: broadcast_to_group(g, m) sends m to exactly the listeners that have
\* joined g, at connect time or later by a register or subscribe command, and
\* to no other; broadcast(m) sends m to every connected listener.
C18_BroadcastReachesJoined ==
    [][Broadcasts =>
          /\ delivered'.kind = "group" =>
                delivered'.got \cup delivered'.failed = Joined(delivered'.group)
          /\ delivered'.kind = "broadcast" =>
                delivered'.got \cup delivered'.failed = Connected]_vars

C20_DisconnectedListenerRemoved ==
    \A w \in Listeners :
       listener[w].st = "gone" =>
          /\ FindConnection(active_connections, w, 1) = 0
          /\ \A g \in DOMAIN client_groups : ~InList(client_groups[g], w)

\* A listener that joined a group at connect time has disconnected, and a
\* broadcast to that group reached another listener and not this one.
C20_Witness ==
    \E w \in Listeners :
       /\ listener[w].st = "gone"
       /\ delivered.kind = "group"
       /\ InList(listener[w].groups, delivered.group)
       /\ delivered.got # {}
       /\ w \notin delivered.got \cup delivered.failed


\* ---------------------------------------------------- tasks and sockets
\* A receive_messages task that was created and has not returned.
Running(l) == loop[l].pc \notin {"none", "exited"}
RunningLoops == {l \in Loops : Running(l)}
OpenSocks == {s \in Socks : sock[s] = "open"}

\* C26: at every moment at most one receive_messages task is running, across
\* the initial connect, the reconnects of try_reconnect and the connects
\* started by send_message and send_and_wait_for_response.
C26_OneReceiveLoop == Cardinality(RunningLoops) <= 1

\* C27: at every moment at most one upstream socket is open: when connect()
\* has opened a new socket, none of the sockets it opened before is open.
C27_OneOpenSocket == Cardinality(OpenSocks) <= 1

\* --------------------------------------------- the order of classification
\* What one iteration of the receive loop did with its frame, read from the
\* two states of the step: "future" when it completed the pending call,
\* "push" when it handed the frame to the dispatcher, "logout" when it
\* disconnected, "echo" when it wrote the frame back or went to connect for
\* that.
Completed(f) ==
    \E c \in Calls : call[c].fut = "pending" /\ call'[c].fut = "done" /\ call'[c].res = f
Pushed(f) == dispatched' = {f}
LoggedOut == keep_running /\ ~keep_running'
Echoed(l, f) ==
    \/ loop'[l].pc = "conn_echo"
    \/ [trnm |-> f.trnm, ref |-> f.req, seq |-> "", grp_no |-> "", item |-> <<>>,
        type |-> <<>>, refresh |-> ""] \in sentOn'
    \/ ~connected'

C30_DistinctTagsIndependent ==
    [][\A l \in Loops, a \in Calls, b \in Calls :
         (/\ Handles(l)
          /\ Pending(a) /\ Pending(b)
          /\ call[a].tag # call[b].tag
          /\ loop[l].frame.trnm = call[a].tag)
         => /\ call'[a].fut = "done"
            /\ call'[a].res = loop[l].frame
            /\ call'[b] = call[b]
            /\ response_futures' = response_futures]_vars

\* One of two requests with distinct tags has got its reply while the other
\* is still pending; the one that started later was answered first.
C30_Witness ==
    \E a \in Calls, b \in Calls :
        /\ b < a
        /\ call[a].fut = "done" /\ call[a].res.trnm = call[a].tag
        /\ Pending(b)
        /\ call[a].tag # call[b].tag

\* ----------------------------------------------------- the two sinks
\* process_real_time_data has handled one more event in this step.
Handled ==
    /\ Len(processed') = Len(processed) + 1
    /\ processed'[Len(processed')].api = "process_real_time_data"
Event == processed'[Len(processed')].data
OpenClients == {w \in Range(websocket_clients) : listener[w].channel = "open"}
\* The cache holds the value v for kind k and instrument i.
Cached(R, k, i, v) ==
    /\ Has(R.hashes, k)
    /\ Has(R.hashes[k], i)
    /\ R.hashes[k][i] = v

\* C21: the two sinks of a push event are isolated from each other: whatever
\* becomes of the cache write, the event is sent to every registered client
\* whose channel takes it; and when a send of the broadcast raises while a
\* Redis connection exists, the items of the event are in the cache all the
\* same.
C21_SinksIsolated ==
    [][Handled =>
          /\ OpenClients # {}
                => delivered'.tick # delivered.tick /\ delivered'.got = OpenClients
          /\ (delivered'.failed # {} /\ redis_client = "conn")
                => \A n \in 1..Len(Event) :
                      Cached(redis', Event[n].type, Event[n].item, Event[n].values)]_vars


\* ------------------------------------------------- the snapshot cache
\* C22: after process_real_time_data has handled an event while the Redis
\* connection exists, the cache holds, for the kind and the instrument of
\* each item of the event, the values of that item: the latest event has
\* replaced whatever was there.
C22_LatestSnapshotCached ==
    [][(Handled /\ redis_client = "conn")
          => \A n \in 1..Len(Event) :
                Cached(redis', Event[n].type, Event[n].item, Event[n].values)]_vars


\* ------------------------------------------------- the trade time series
\* The keys trade:<code>:<timestamp> that the cache holds for an instrument,
\* and the trades of the instrument that _store_trade_data has stored.
TradeKeys(i) == {k \in DOMAIN redis.strings : k[1] = "trade" /\ k[2] = i}
TradesStored(i) ==
    {n \in 1..Len(processed) :
        processed[n].api = "_store_trade_data" /\ processed[n].data[1].item = i}

\* C23: the trades stored for an instrument each have a cache key of their
\* own: after N calls of _store_trade_data for the instrument there are N
\* keys trade:<code>:<timestamp>.
C23_OneKeyPerTrade ==
    \A i \in Instruments : Cardinality(TradeKeys(i)) = Cardinality(TradesStored(i))


\* ------------------------------------------------- REST without upstream
\* C24: a request to a handler that calls into the upstream client, arriving
\* while kiwoom_client.connected is False, is answered with status 503.
C24_Unavailable503 ==
    (response.route \in Routes /\ ~response.connected) => response.status = 503


\* --------------------------------------------- errors on the command loop
\* A text that is no valid JSON, or a command whose action is not known.
Rejected(text) ==
    \/ text.json = "invalid"
    \/ text.json = "object" /\ text.action \notin {"get_status"}
\* The endpoint of w has handled one more text in this step.
Commanded(w) == Len(session'[w]) = Len(session[w]) + 1
LastCommand(w) == session'[w][Len(session'[w])]

\* C25: a command with an unknown action, or a text that is not valid JSON,
\* is answered with exactly one reply of status "error" that carries a
\* message; the websocket stays registered with the handler, its endpoint
\* stays in its loop and its channel stays open.
C25_ErrorReplyKeepsOpen ==
    [][\A w \in CacheListeners :
          (Commanded(w) /\ Rejected(LastCommand(w).text))
             => /\ Len(LastCommand(w).replies) = 1
                /\ LastCommand(w).replies[1].status = "error"
                /\ LastCommand(w).replies[1].message # ""
                /\ InList(websocket_clients', w)
                /\ listener'[w].st = "handler"
                /\ listener'[w].channel = "open"]_vars

\* A client sent a command with an unknown action, then a text that is not
\* JSON, then get_status, and got its status.
C25_Witness ==
    \E w \in CacheListeners :
        /\ Len(session[w]) = 3
        /\ session[w][1].text = Text("object", "bogus")
        /\ session[w][1].replies = <<Reply("error", "", "unsupported")>>
        /\ session[w][2].text = Text("invalid", "")
        /\ session[w][2].replies = <<Reply("error", "", "invalid_json")>>
        /\ session[w][3].replies = <<Reply("success", "get_status", "")>>
        /\ InList(websocket_clients, w)


\* ------------------------------------------- concurrent registry calls
\* A call run alone on the mirror R of a connected client whose sends
\* succeed: the mirror it leaves and the status it returns.
Alone(R, c) ==
    LET a == c.args IN
    IF c.api = "subscribe_realtime_price"
    THEN [reg |-> SubscribeItems(R, a.group_no, a.items, a.data_types, a.refresh),
          ret |-> "success"]
    ELSE IF c.api = "register_real_data"
    THEN [reg |-> RegisterItems(R, a.group_no, a.items, a.data_types, a.refresh),
          ret |-> "true"]
    ELSE LET k == UnsubscribeCheck(R, TRUE, a.group_no, a.items, a.data_types) IN
         IF k = "group" THEN [reg |-> Del(R, a.group_no), ret |-> "success"]
         ELSE IF k = "items"
         THEN [reg |-> UnsubscribeItems(R, a.group_no, a.items, a.data_types), ret |-> "success"]
         ELSE [reg |-> R, ret |-> k]

\* The calls q, run one after another from the mirror R, return what the
\* calls of this run returned and leave the mirror of this run.
RECURSIVE OneAfterAnother(_, _)
OneAfterAnother(R, q) ==
    IF q = <<>> THEN R = registered_items
    ELSE /\ Alone(R, op[Head(q)]).ret = op[Head(q)].ret
         /\ OneAfterAnother(Alone(R, op[Head(q)]).reg, Tail(q))

ReturnedCalls == {o \in Ops : op[o].pc = "done"}

\* C28: when every call made has returned, the mirror and the statuses
\* returned are those of the same calls run one after another in some order.
C28_AsIfSerialized ==
    (\A o \in Ops : op[o].pc \in {"idle", "done"})
       => \E q \in ListsOf(ReturnedCalls) : OneAfterAnother(Mirror0, q)


\* ------------------------------------------------- calls come back
\* C31: a call of send_and_wait_for_response that has started returns to its
\* caller in the end.
C31_CallsReturn ==
    \A c \in Calls : (call[c].pc \in {"conn", "wait"}) ~> (call[c].pc = "done")


\* ------------------------------------------------- the reconnect delay
\* A connect() has succeeded in this step: a socket was opened.
ConnectSucceeded == \E s \in Socks : sock[s] = "unopened" /\ sock'[s] # "unopened"
\* Task l has begun a reconnect attempt in this step.
Attempts(l) == loop'[l].pc = "reconnect" /\ loop'[l] # loop[l]

\* C32: a reconnect attempt raises reconnect_attempts by exactly one and
\* sleeps retry_delay times the new count before it calls connect(), so the
\* k-th attempt in a row waits k x retry_delay; a connect() that succeeds puts
\* the count back to 0, and nothing else changes it.
C32_LinearBackoff ==
    [][/\ reconnect_attempts' \in {reconnect_attempts, reconnect_attempts + 1, 0}
       /\ \A l \in Loops :
             Attempts(l) => /\ reconnect_attempts' = reconnect_attempts + 1
                            /\ loop'[l].wait = retry_delay * reconnect_attempts'
       /\ (reconnect_attempts' = reconnect_attempts + 1)
             => \E l \in Loops : /\ loop'[l].pc = "reconnect"
                                 /\ loop'[l].wait = retry_delay * reconnect_attempts'
       /\ ConnectSucceeded => reconnect_attempts' = 0
       /\ (reconnect_attempts # 0 /\ reconnect_attempts' = 0) => ConnectSucceeded]_vars

\* A receive task sleeps fifteen seconds before the third attempt in a row.
C32_Witness ==
    \E l \in Loops :
        /\ loop[l].pc = "reconnect"
        /\ loop[l].wait = 3 * retry_delay
        /\ reconnect_attempts = 3


\* ------------------------------------------------- the attempt counter
\* C40: reconnect_attempts never leaves 0..max_retries.
C40_AttemptsBounded == reconnect_attempts \in 0..max_retries

\* The last attempt allowed is under way after a connection loss, while a
\* socket had been opened before.
C40_Witness ==
    /\ reconnect_attempts = max_retries
    /\ \E l \in Loops : loop[l].pc = "reconnect"
    /\ \E s \in Socks : sock[s] = "closed"


\* ------------------------------------------------- the fan-out of a push
\* C33: when process_real_time_data has been given a REAL frame, a send of
\* it has been made to every websocket in websocket_clients, and every one
\* of them whose channel is open has got it.
C33_PushReachesListeners ==
    [][Handled =>
          /\ websocket_clients # <<>> => delivered'.tick # delivered.tick
          /\ Range(websocket_clients) \subseteq delivered'.got \cup delivered'.failed
          /\ OpenClients \subseteq delivered'.got]_vars


\* ------------------------------------------------- connected has a reader
\* C34: while connected is True a receive_messages task is running (created
\* and not yet finished), so that the next frame of the venue is read.
C34_ConnectedHasReader == connected => RunningLoops # {}


\* ------------------------------------------------- no entry left behind
\* A call of send_and_wait_for_response is in progress: it has started and
\* has not returned.
InProgress(c) == call[c].pc \in {"conn", "wait"}

\* C35: while no call of send_and_wait_for_response is in progress,
\* response_futures is empty.
C35_NoEntryLeft == (\A c \in Calls : ~InProgress(c)) => response_futures = EmptyDict

\* Calls have returned on different paths, one with its reply and one with
\* the timeout error, and no call is in progress.
C35_Witness ==
    /\ \A c \in Calls : ~InProgress(c)
    /\ \E a \in Calls, b \in Calls :
          /\ call[a].pc = "done" /\ call[a].ret = "reply"
          /\ call[b].pc = "done" /\ call[b].ret = "timeout"
    /\ response_futures = EmptyDict


\* ---------------------------------------------- the two subscription mirrors
\* SocketClient.registered_items as groups and the instruments of each.
InstrumentsOf(reg) == [g \in DOMAIN reg |-> DOMAIN reg[g]]

\* C36: after any sequence of register, subscribe_price and unsubscribe_price
\* commands, the groups and instruments that get_status reports from the
\* state manager are those of SocketClient.registered_items.
C36_MirrorsAgree ==
    GetAllSubscriptions(state_manager.subscriptions) = InstrumentsOf(registered_items)


\* ------------------------------------------------- the condition commands
\* The turn of the command loop that a step completes.
Turned == Len(market_websocket'.replies) = Len(market_websocket.replies) + 1
LastTurn == market_websocket'.replies[Len(market_websocket'.replies)]
ConditionBooksChange ==
    \/ market_websocket'.client_groups # market_websocket.client_groups
    \/ state_manager'.condition_subscriptions # state_manager.condition_subscriptions

\* C39: a condition_realtime command adds cond_<seq> to client_groups and seq
\* to condition_subscriptions only if the upstream request came back with a
\* reply and not with an error; a condition_cancel command removes them, and
\* replies success, only if the upstream cancel came back with a reply.
C39_ConditionOnlyOnReply ==
    [][Turned =>
         /\ (LastTurn.command = "condition_realtime" /\ ConditionBooksChange)
               => LastTurn.upstream = "reply"
         /\ (LastTurn.command = "condition_cancel"
               /\ (ConditionBooksChange \/ LastTurn.reply.status = "success"))
               => LastTurn.upstream = "reply"]_vars


\* ------------------------------------------- an unsubscribe that is rejected
\* A call of unsubscribe_realtime_price with arguments a meets, in the state
\* it starts in, one of the four rejections: transport not connected, group
\* not registered, a listed instrument not in the group, a listed kind not
\* registered for a listed instrument.
RejectedByValidation(a) ==
    \/ ~connected
    \/ ~Has(registered_items, a.group_no)
    \/ /\ Has(registered_items, a.group_no)
       /\ a.items # NoneArg
       /\ \/ \E n \in 1..Len(a.items) : ~Has(registered_items[a.group_no], a.items[n])
          \/ /\ a.data_types # NoneArg
             /\ \A n \in 1..Len(a.items) : Has(registered_items[a.group_no], a.items[n])
             /\ \E n \in 1..Len(a.items), t \in 1..Len(a.data_types) :
                   ~InList(registered_items[a.group_no][a.items[n]], a.data_types[t])

\* Call o of unsubscribe_realtime_price runs in this step.
Unsubscribes(o) ==
    op[o].pc = "idle" /\ op'[o].pc = "done" /\ op'[o].api = "unsubscribe_realtime_price"

\* C38: a call of unsubscribe_realtime_price that validation rejects sends
\* nothing upstream and leaves registered_items, and the transport, as they
\* were; it does not return success.
C38_RejectedUnsubscribeInert ==
    [][\A o \in Ops :
         (Unsubscribes(o) /\ RejectedByValidation(op'[o].args))
            => /\ sentOn' = sentOn
               /\ registered_items' = registered_items
               /\ connected' = connected
               /\ op'[o].msg = NoMsg
               /\ op'[o].ret # "success"]_vars

\* Two calls have been rejected, one for an instrument that is not in the
\* group and one for a kind that is not registered for its instrument, and
\* the group is still registered.
C38_Witness ==
    /\ registered_items # EmptyDict
    /\ \E a \in Ops, b \in Ops :
          /\ op[a].api = "unsubscribe_realtime_price" /\ op[a].ret = "invalid_items"
          /\ op[b].api = "unsubscribe_realtime_price" /\ op[b].ret = "invalid_types"


\* ------------------------------------- listeners that leave during a broadcast
\* How many times broadcast b has sent to w.
Times(q, w) == Cardinality({n \in 1..Len(q) : q[n] = w})

\* w was listed when the broadcast started, is still listed (a client that
\* has been unregistered does not come back) and its channel takes a send.
Stayed(b, w) ==
    /\ w \in broadcast_task[b].start
    /\ InList(websocket_clients, w)
    /\ listener[w].channel = "open"

\* C37: when a broadcast has returned, every listener that stayed registered
\* from its start to its end has got the message exactly once, whatever
\* listeners were removed while it ran.
C37_StayersGetItOnce ==
    \A b \in Tasks : broadcast_task[b].pc = "done" =>
        \A w \in Listeners : Stayed(b, w) => Times(broadcast_task[b].got, w) = 1

====
